---- MODULE Spec2Model ----
(***************************************************************************)
(* Verification model of the Sleep-tracker / Stress / Mood logger          *)
(* analytics services:                                                     *)
(*   - GamificationService (stats, streaks, badges, achievements),         *)
(*   - InsightsService and CorrelationsService (insights, correlations),   *)
(*   - HealthService / SleepTrackingScreen (sleep duration).               *)
(*                                                                         *)
(* Numbers.  The services compute with IEEE doubles.  GamificationService  *)
(* is modelled exactly, on integers: a score is held in ticks of 1/Unit    *)
(* point, an average as the pair <<sum, count>>, and a comparison of       *)
(* quotients is cross-multiplied; for the integer-valued scores of the     *)
(* application the double sums are exact and no quotient lies within       *)
(* rounding distance of a threshold it is compared with.  The correlation, *)
(* insight and sleep duration functions are modelled on doubles (see       *)
(* "JavaScript numbers"), since their results depend on the rounding.      *)
(*                                                                         *)
(* Time.  An instant is a number of hours since 00:00 UTC of day 0, a      *)
(* calendar date 'YYYY-MM-DD' is its day number.                           *)
(***************************************************************************)
EXTENDS Integers, Sequences, FiniteSets, TLC

VARIABLES
    now,            \* the clock: what new Date() returns
    tz,             \* the device time zone (local-time methods of Date use it)
    healthData,     \* the caller's HealthEntry array, passed by reference
    badges,         \* GamificationService.badges
    achievements,   \* GamificationService.achievements
    userStats,      \* GamificationService.userStats
    storage,        \* AsyncStorage: key -> stored JSON value, or Null
    rejections,     \* how many AsyncStorage calls have rejected so far
    timeArgs,       \* the start and end time strings given to calculateSleepDuration
    call,           \* the last completed call: its name and what it returned
    isInitialized,  \* NotificationService.isInitialized
    reminderSettings, \* NotificationService.reminderSettings
    scheduled       \* expo-notifications: how many notifications of each type are scheduled

notificationVars == <<isInitialized, reminderSettings, scheduled>>

vars == <<now, tz, healthData, badges, achievements, userStats, storage, rejections,
          timeArgs, call, notificationVars>>

Null == "null"

(***************************************************************************)
(* Program constants                                                       *)
(***************************************************************************)
HoursPerDay == 24
MinutesPerHour == 60
TrendMinEntries == 14
StreakLookback == 365
XpPerLog == 10
XpPerLevel == 100
InsightMinEntries == 7
CorrelationMinEntries == 3

\* Ticks per score point: the linear profile over TrendMinEntries days is exact.
Unit == TrendMinEntries - 1

\* const w = v; ... F(w): v is computed first and F is applied to its value
Let(v, F(_)) == [w \in {v} |-> F(w)][v]

\* Array.prototype.reduce over the indices lo..hi: F(... F(F(acc, lo), lo + 1)
\* ..., hi), the left half of the indices folded before the right half
RECURSIVE Reduce(_, _, _, _)
Reduce(F(_, _), lo, hi, acc) ==
    IF lo >= hi THEN (IF lo > hi THEN acc ELSE F(acc, lo))
    ELSE Let(Reduce(F, lo, (lo + hi) \div 2, acc),
             LAMBDA left : Reduce(F, (lo + hi) \div 2 + 1, hi, left))

\* Array.prototype.map over the indices 1..n
Map(F(_), n) == <<>> \o [i \in 1..n |-> F(i)]

Min(a, b) == IF a < b THEN a ELSE b
Max(a, b) == IF a > b THEN a ELSE b
Abs(a) == IF a < 0 THEN 0 - a ELSE a

RECURSIVE SumSeq(_)
SumSeq(s) == IF s = <<>> THEN 0 ELSE Head(s) + SumSeq(Tail(s))

\* Array.prototype.map and filter
MapSeq(s, F(_)) == [i \in 1..Len(s) |-> F(s[i])]
FilterSeq(s, P(_)) == SelectSeq(s, P)

(***************************************************************************)
(* Dates                                                                   *)
(***************************************************************************)
\* new Date('YYYY-MM-DD').getTime(): a date-only string is UTC midnight
DateParse(d) == d * HoursPerDay

\* date.toISOString().split('T')[0]: the UTC calendar date of an instant
ISODate(t) == t \div HoursPerDay

\* A zone is [base, shift, at]: its UTC offset is base before the instant at
\* and base + shift from it on (shift -1: clocks fall back; +1: spring forward).
Offset(zone, t) == IF t < zone.at THEN zone.base ELSE zone.base + zone.shift

\* Local wall-clock time of an instant
LocalTime(zone, t) == t + Offset(zone, t)

\* The instant of a wall-clock time.  A wall time that is repeated or skipped
\* at the transition is read with the offset before the transition
\* (ECMAScript LocalTime/UTC(t)).
LocalToUTC(zone, w) ==
    LET before == w - zone.base
        after  == w - (zone.base + zone.shift)
    IN  IF before < zone.at THEN before
        ELSE IF after >= zone.at THEN after
        ELSE before

\* checkDate.setDate(checkDate.getDate() - 1): the same wall-clock time on the
\* previous local calendar day
PrevLocalDay(zone, t) == LocalToUTC(zone, LocalTime(zone, t) - HoursPerDay)

(***************************************************************************)
(* Entries                                                                 *)
(***************************************************************************)
\* HealthEntry / HealthEntrySchema, flattened.  A score of 0 is a missing
\* (falsy) score.
MkEntry(d, dur, q, m, s, gi, skin, mig) ==
    [date |-> d, duration_hours |-> dur, quality_score |-> q,
     mood_score |-> m, stress_score |-> s,
     gi_flare |-> gi, skin_flare |-> skin, migraine |-> mig]

\* Array.prototype.sort with the comparator a.date - b.date (ascending) or
\* b.date - a.date (descending): stable, so equal dates keep their order.
RECURSIVE InsertByDate(_, _, _)
InsertByDate(e, s, asc) ==
    IF s = <<>> THEN <<e>>
    ELSE LET last == s[Len(s)]
             stays == IF asc THEN DateParse(last.date) <= DateParse(e.date)
                             ELSE DateParse(last.date) >= DateParse(e.date)
         IN  IF stays THEN Append(s, e)
             ELSE Append(InsertByDate(e, SubSeq(s, 1, Len(s) - 1), asc), last)

RECURSIVE SortPrefix(_, _, _)
SortPrefix(s, n, asc) ==
    IF n = 0 THEN <<>> ELSE InsertByDate(s[n], SortPrefix(s, n - 1, asc), asc)

SortByDate(s, asc) == SortPrefix(s, Len(s), asc)

(***************************************************************************)
(* GamificationService: statistics                                         *)
(***************************************************************************)
\* An average sum/n; the average of no values is 0
Avg(values) ==
    IF Len(values) > 0 THEN [sum |-> SumSeq(values), n |-> Len(values)]
    ELSE [sum |-> 0, n |-> 1]

Positive(x) == x > 0
MoodOf(e) == e.mood_score
QualityOf(e) == e.quality_score
StressOf(e) == e.stress_score

\* calculateAverageScore: three times the wellness score of an entry is
\* mood + sleep + (10 - stress); the scores that are not > 0 are dropped.
WellnessOf(e) == e.mood_score + e.quality_score + (10 * Unit - e.stress_score)

calculateAverageScore(data) == Avg(FilterSeq(MapSeq(data, WellnessOf), Positive))

\* The sign tests on change = ((secondAvg - firstAvg) / firstAvg) * 100.
\* A zero firstAvg gives Infinity (secondAvg > 0) or NaN (secondAvg = 0).
TrendOfChange(firstAvg, secondAvg) ==
    IF firstAvg.sum = 0
    THEN IF secondAvg.sum > 0 THEN "up" ELSE "stable"
    ELSE LET diff == secondAvg.sum * firstAvg.n - firstAvg.sum * secondAvg.n
             base == firstAvg.sum * secondAvg.n
         IN  IF 100 * diff > 5 * base THEN "up"
             ELSE IF 100 * diff < (0 - 5) * base THEN "down"
             ELSE "stable"

\* Mutant of calculateImprovementTrend: the halves are taken of the array as
\* it is passed
calculateImprovementTrend_Unsorted(data) ==
    IF Len(data) < TrendMinEntries THEN "stable"
    ELSE LET half == Len(data) \div 2
         IN  TrendOfChange(calculateAverageScore(SubSeq(data, 1, half)),
                           calculateAverageScore(SubSeq(data, half + 1, Len(data))))

calculateImprovementTrend(data) ==
    IF Len(data) < TrendMinEntries THEN "stable"
    ELSE LET sortedData == SortByDate(data, TRUE)
             half       == Len(sortedData) \div 2
             firstHalf  == SubSeq(sortedData, 1, half)
             secondHalf == SubSeq(sortedData, half + 1, Len(sortedData))
         IN  TrendOfChange(calculateAverageScore(firstHalf),
                           calculateAverageScore(secondHalf))

HasLog(data, d) == \E i \in 1..Len(data) : data[i].date = d

\* The current-streak loop: checkDate starts at UTC midnight of today and is
\* moved back with the local-time setDate.
RECURSIVE StreakWalk(_, _, _, _)
StreakWalk(data, zone, checkDate, i) ==
    IF i < StreakLookback /\ HasLog(data, ISODate(checkDate))
    THEN 1 + StreakWalk(data, zone, PrevLocalDay(zone, checkDate), i + 1)
    ELSE 0

currentStreakOf(data, t, zone) ==
    StreakWalk(data, zone, DateParse(ISODate(t)), 0)

\* The distinct dates, newest first
RECURSIVE DatesDescending(_)
DatesDescending(S) ==
    IF S = {} THEN <<>>
    ELSE LET m == CHOOSE x \in S : \A y \in S : DateParse(y) <= DateParse(x)
         IN  <<m>> \o DatesDescending(S \ {m})

\* The longest-streak loop over sortedDates, from index i on
RECURSIVE LongestWalk(_, _, _, _)
LongestWalk(sortedDates, i, tempStreak, longestStreak) ==
    IF i > Len(sortedDates) THEN longestStreak
    ELSE IF i < Len(sortedDates)
    THEN LET daysDiff == (DateParse(sortedDates[i]) - DateParse(sortedDates[i + 1]))
                             \div HoursPerDay
         IN  IF daysDiff = 1
             THEN LongestWalk(sortedDates, i + 1, tempStreak + 1, longestStreak)
             ELSE LongestWalk(sortedDates, i + 1, 0, Max(longestStreak, tempStreak + 1))
    ELSE LongestWalk(sortedDates, i + 1, tempStreak, Max(longestStreak, tempStreak + 1))

\* Mutant of longestStreakOf: the walk is over the dates of the entries, a
\* date as often as it has entries
longestStreakOf_PerEntry(data) ==
    LongestWalk([i \in 1..Len(data) |-> SortByDate(data, FALSE)[i].date], 1, 0, 0)

longestStreakOf(data) ==
    LongestWalk(DatesDescending({data[i].date : i \in 1..Len(data)}), 1, 0, 0)

calculateStreaks(data, t, zone) ==
    LET sortedData == SortByDate(data, FALSE)
    IN  IF Len(sortedData) = 0
        THEN [currentStreak |-> 0, longestStreak |-> 0, lastLogDate |-> Null]
        ELSE [currentStreak |-> currentStreakOf(sortedData, t, zone),
              longestStreak |-> longestStreakOf(sortedData),
              lastLogDate   |-> sortedData[1].date]

\* Mutant of levelOf: levels counted from 0
levelOf_FromZero(experience) == experience \div XpPerLevel

\* The level of an experience total
levelOf(experience) == (experience \div XpPerLevel) + 1

\* calculateStats, without the badge tables it puts in the result by reference
calculateStats(data, t, zone) ==
    LET totalLogs  == Len(data)
        experience == totalLogs * XpPerLog
        level      == levelOf(experience)
    IN  [totalLogs        |-> totalLogs,
         totalDays        |-> Cardinality({data[i].date : i \in 1..Len(data)}),
         averageMood      |-> Avg(FilterSeq(MapSeq(data, MoodOf), Positive)),
         averageSleep     |-> Avg(FilterSeq(MapSeq(data, QualityOf), Positive)),
         averageStress    |-> Avg(FilterSeq(MapSeq(data, StressOf), Positive)),
         improvementTrend |-> calculateImprovementTrend(data),
         streaks          |-> calculateStreaks(data, t, zone),
         level            |-> level,
         experience       |-> experience,
         nextLevelExp     |-> level * XpPerLevel]

(***************************************************************************)
(* GamificationService: badges and achievements                            *)
(***************************************************************************)
\* An optional value: <<>> is null / undefined, <<v>> is the value v
None == <<>>
Some(v) == <<v>>

\* unlockedAt: undefined, a Date, or the ISO string JSON.parse leaves of it
NoDate == [type |-> "undefined", t |-> 0]
DateAt(t) == [type |-> "Date", t |-> t]

\* initializeBadges: the catalog, in its order
BadgeIds ==
    << "streak_3", "streak_7", "streak_30", "streak_100",
       "consistency_week", "consistency_month",
       "mood_improvement", "sleep_improvement", "stress_reduction",
       "milestone_50", "milestone_100", "milestone_365",
       "early_bird", "night_owl", "perfectionist" >>

BadgeIdSet == {BadgeIds[i] : i \in 1..Len(BadgeIds)}

maxProgressOf(id) ==
    CASE id = "streak_3" -> 3
      [] id = "streak_7" -> 7
      [] id = "streak_30" -> 30
      [] id = "streak_100" -> 100
      [] id = "consistency_week" -> 7
      [] id = "consistency_month" -> 30
      [] id = "mood_improvement" -> 1
      [] id = "sleep_improvement" -> 1
      [] id = "stress_reduction" -> 1
      [] id = "milestone_50" -> 50
      [] id = "milestone_100" -> 100
      [] id = "milestone_365" -> 365
      [] id = "early_bird" -> 7
      [] id = "night_owl" -> 7
      [] id = "perfectionist" -> 5

initializeBadges ==
    [id \in BadgeIdSet |->
        [progress |-> 0, maxProgress |-> maxProgressOf(id),
         isUnlocked |-> FALSE, unlockedAt |-> NoDate]]

\* initializeAchievements
AchievementIds ==
    << "first_log", "week_complete", "month_complete", "mood_master",
       "sleep_master", "stress_master", "data_analyst", "voice_logger" >>

AchievementIdSet == {AchievementIds[i] : i \in 1..Len(AchievementIds)}

initializeAchievements ==
    [id \in AchievementIdSet |-> [isUnlocked |-> FALSE, unlockedAt |-> NoDate]]

ImprovementIds == {"mood_improvement", "sleep_improvement", "stress_reduction"}

\* Array.prototype.slice(from, to) with negative indexes counted from the end
SliceFromEnd(s, fromEnd, toEnd) ==
    SubSeq(s, Max(Len(s) - fromEnd, 0) + 1, Len(s) - toEnd)

\* getAverageScore in checkImprovement
ImprovementScore(type, e) ==
    CASE type = "mood_improvement"  -> e.mood_score
      [] type = "sleep_improvement" -> e.quality_score
      [] type = "stress_reduction"  -> e.stress_score
      [] OTHER -> 0

getAverageScore(data, type) ==
    LET Score(e) == ImprovementScore(type, e)
    IN  Avg(FilterSeq(MapSeq(data, Score), Positive))

checkImprovement(data, badgeId) ==
    IF Len(data) < TrendMinEntries THEN FALSE
    ELSE LET sortedData    == SortByDate(data, TRUE)
             last7Days     == SliceFromEnd(sortedData, 7, 0)
             previous7Days == SliceFromEnd(sortedData, 14, 7)
             lastAvg       == getAverageScore(last7Days, badgeId)
             prevAvg       == getAverageScore(previous7Days, badgeId)
             shift         == 2 * Unit * lastAvg.n * prevAvg.n
         IN  IF Len(last7Days) < 7 \/ Len(previous7Days) < 7 THEN FALSE
             ELSE IF badgeId = "stress_reduction"
             THEN lastAvg.sum * prevAvg.n < prevAvg.sum * lastAvg.n - shift
             ELSE lastAvg.sum * prevAvg.n > prevAvg.sum * lastAvg.n + shift

\* Mutant of BadgeProgress: the progress is the count itself, not the smaller
\* of the count and maxProgress
BadgeProgress_Unclamped(id, badge, data, stats) ==
    CASE id \in {"streak_3", "streak_7", "streak_30", "streak_100"} ->
            << stats.streaks.currentStreak, stats.streaks.currentStreak >= badge.maxProgress >>
      [] id \in {"milestone_50", "milestone_100", "milestone_365"} ->
            << stats.totalLogs, stats.totalLogs >= badge.maxProgress >>
      [] OTHER -> << 0, FALSE >>

\* Mutant of BadgeProgress: the switch has a case for the special badges
BadgeProgress_SpecialCounted(id, badge, data, stats) ==
    CASE id \in {"early_bird", "night_owl", "perfectionist"} ->
            << Min(stats.totalLogs, badge.maxProgress), stats.totalLogs >= badge.maxProgress >>
      [] OTHER -> << 0, FALSE >>

\* The switch of checkBadges: <<progress, shouldUnlock>> of a badge
BadgeProgress(id, badge, data, stats) ==
    CASE id \in {"streak_3", "streak_7", "streak_30", "streak_100"} ->
            << Min(stats.streaks.currentStreak, badge.maxProgress),
               stats.streaks.currentStreak >= badge.maxProgress >>
      [] id = "consistency_week" ->
            << Min(stats.streaks.currentStreak, 7), stats.streaks.currentStreak >= 7 >>
      [] id = "consistency_month" ->
            << Min(stats.streaks.currentStreak, 30), stats.streaks.currentStreak >= 30 >>
      [] id \in {"milestone_50", "milestone_100", "milestone_365"} ->
            << Min(stats.totalLogs, badge.maxProgress),
               stats.totalLogs >= badge.maxProgress >>
      [] id \in ImprovementIds ->
            LET improvement == checkImprovement(data, id)
            IN  << IF improvement THEN 1 ELSE 0, improvement >>
      [] OTHER -> << 0, FALSE >>

\* Mutant of CheckBadge: the loop does not skip an unlocked badge
CheckBadge_NoSkip(id, badge, data, stats, t) ==
    LET res == BadgeProgress(id, badge, data, stats)
    IN  [badge EXCEPT !.progress = res[1], !.isUnlocked = res[2],
                      !.unlockedAt = IF res[2] THEN DateAt(t) ELSE NoDate]

\* Mutant of CheckBadge: the progress is written only for a badge that stays
\* locked
CheckBadge_ProgressKept(id, badge, data, stats, t) ==
    IF badge.isUnlocked THEN badge
    ELSE LET res == BadgeProgress(id, badge, data, stats)
         IN  IF res[2]
             THEN [badge EXCEPT !.isUnlocked = TRUE, !.unlockedAt = DateAt(t)]
             ELSE [badge EXCEPT !.progress = res[1]]

\* One iteration of the loop of checkBadges
CheckBadge(id, badge, data, stats, t) ==
    IF badge.isUnlocked THEN badge
    ELSE LET res == BadgeProgress(id, badge, data, stats)
         IN  IF res[2]
             THEN [badge EXCEPT !.progress = res[1], !.isUnlocked = TRUE,
                                !.unlockedAt = DateAt(t)]
             ELSE [badge EXCEPT !.progress = res[1]]

\* The badge table after checkBadges
checkBadges(table, data, stats, t) ==
    [id \in DOMAIN table |-> CheckBadge(id, table[id], data, stats, t)]

\* newBadges / newAchievements: what the pass unlocked, in catalog order
NewlyUnlocked(ids, before, after) ==
    LET Flipped(id) == id \in DOMAIN before /\ ~before[id].isUnlocked /\ after[id].isUnlocked
    IN  SelectSeq(ids, Flipped)

\* The switch of checkAchievements
AchievementDue(id, stats) ==
    CASE id = "first_log"      -> stats.totalLogs >= 1
      [] id = "week_complete"  -> stats.streaks.currentStreak >= 7
      [] id = "month_complete" -> stats.streaks.currentStreak >= 30
      [] id = "mood_master"    -> stats.averageMood.sum >= 8 * Unit * stats.averageMood.n
      [] id = "sleep_master"   -> stats.averageSleep.sum >= 8 * Unit * stats.averageSleep.n
      [] id = "stress_master"  -> stats.averageStress.sum <= 3 * Unit * stats.averageStress.n
      [] OTHER -> FALSE

\* One iteration of the loop of checkAchievements
CheckAchievement(id, achievement, stats, t) ==
    IF achievement.isUnlocked THEN achievement
    ELSE IF AchievementDue(id, stats)
    THEN [achievement EXCEPT !.isUnlocked = TRUE, !.unlockedAt = DateAt(t)]
    ELSE achievement

checkAchievements(table, stats, t) ==
    [id \in DOMAIN table |-> CheckAchievement(id, table[id], stats, t)]

\* JSON.parse(JSON.stringify(table)): a Date comes back as its ISO string
JsonDate(d) == IF d.type = "Date" THEN [type |-> "string", t |-> d.t] ELSE d

JsonTable(table) ==
    [id \in DOMAIN table |-> [table[id] EXCEPT !.unlockedAt = JsonDate(@)]]

JsonStats(stats) ==
    [stats EXCEPT !.badges = JsonTable(@), !.achievements = JsonTable(@)]

\* The order the in-place sorts of updateStats leave the caller's array in:
\* ascending in calculateImprovementTrend, descending in calculateStreaks,
\* ascending again in checkImprovement for a badge that is still locked.
AfterTrendSort(data) ==
    IF Len(data) < TrendMinEntries THEN data ELSE SortByDate(data, TRUE)

AfterStreakSort(data) == SortByDate(AfterTrendSort(data), FALSE)

AfterBadgeSort(data, table) ==
    IF Len(data) >= TrendMinEntries
           /\ \E id \in ImprovementIds \cap DOMAIN table : ~table[id].isUnlocked
    THEN SortByDate(AfterStreakSort(data), TRUE)
    ELSE AfterStreakSort(data)

(***************************************************************************)
(* JavaScript numbers.  A number is an IEEE 754 double: NaN, an infinity,  *)
(* or sign * m * 2^e with m a natural number below 2^Precision, kept with  *)
(* exactly Precision bits unless it is zero.  Natural numbers of any size  *)
(* are sequences of digits in base Limb, lowest digit first, without high  *)
(* zeros.  Every operation is computed exactly and then rounded to the     *)
(* nearest double, ties to even.  The exponent range is not modelled (no   *)
(* value here comes near overflow or underflow), nor is the sign of zero.  *)
(* An intermediate value that is used more than once is handed on as an    *)
(* operator argument, which is evaluated once.                             *)
(***************************************************************************)
LimbBits == 15
Precision == 53
Limb == 2^LimbBits

RECURSIVE NatOf(_)
NatOf(k) == IF k = 0 THEN <<>> ELSE <<k % Limb>> \o NatOf(k \div Limb)

RECURSIVE Trim(_)
Trim(a) ==
    IF a = <<>> THEN <<>>
    ELSE IF a[Len(a)] = 0 THEN Trim(SubSeq(a, 1, Len(a) - 1))
    ELSE a

Low(a) == IF a = <<>> THEN 0 ELSE Head(a)
Rest(a) == IF a = <<>> THEN <<>> ELSE Tail(a)

RECURSIVE NatAddC(_, _, _)
NatAddC(a, b, carry) ==
    IF a = <<>> /\ b = <<>> THEN (IF carry = 0 THEN <<>> ELSE <<carry>>)
    ELSE <<(Low(a) + Low(b) + carry) % Limb>>
             \o NatAddC(Rest(a), Rest(b), (Low(a) + Low(b) + carry) \div Limb)

NatAdd(a, b) == NatAddC(a, b, 0)

\* a - b for a >= b
RECURSIVE NatSubB(_, _, _)
NatSubB(a, b, borrow) ==
    IF a = <<>> THEN <<>>
    ELSE IF Low(a) - Low(b) - borrow < 0
         THEN <<Low(a) - Low(b) - borrow + Limb>> \o NatSubB(Rest(a), Rest(b), 1)
         ELSE <<Low(a) - Low(b) - borrow>> \o NatSubB(Rest(a), Rest(b), 0)

NatSub(a, b) == Trim(NatSubB(a, b, 0))

\* -1, 0 or 1 as a is below, equal to or above b
RECURSIVE NatCmpFrom(_, _, _)
NatCmpFrom(a, b, i) ==
    IF i = 0 THEN 0
    ELSE IF a[i] < b[i] THEN 0 - 1
    ELSE IF a[i] > b[i] THEN 1
    ELSE NatCmpFrom(a, b, i - 1)

NatCmp(a, b) ==
    IF Len(a) < Len(b) THEN 0 - 1
    ELSE IF Len(a) > Len(b) THEN 1
    ELSE NatCmpFrom(a, b, Len(a))

\* a * k + carry for a digit k
RECURSIVE NatMulSmallC(_, _, _)
NatMulSmallC(a, k, carry) ==
    IF a = <<>> THEN (IF carry = 0 THEN <<>> ELSE <<carry>>)
    ELSE <<(Head(a) * k + carry) % Limb>>
             \o NatMulSmallC(Tail(a), k, (Head(a) * k + carry) \div Limb)

NatMulSmall(a, k) == Trim(NatMulSmallC(a, k, 0))

ShiftLimbs(a, n) == IF a = <<>> THEN <<>> ELSE [i \in 1..n |-> 0] \o a

RECURSIVE NatMul(_, _)
NatMul(a, b) ==
    IF b = <<>> THEN <<>>
    ELSE NatAdd(NatMulSmall(a, Head(b)), ShiftLimbs(NatMul(a, Tail(b)), 1))

\* The digits of a quotient are found highest first; a natural number has its
\* lowest digit first
LowestFirst(q) == [i \in 1..Len(q) |-> q[Len(q) + 1 - i]]

\* A division gives the digits of the quotient, highest first, and then the
\* remainder
QuotientOf(res) == Trim(LowestFirst(SubSeq(res, 1, Len(res) - 1)))
RemainderOf(res) == res[Len(res)]

\* The division of the digits i..1 of a by a digit k > 0, with rem carried in
\* from above
RECURSIVE NatDivSmallFrom(_, _, _, _)
NatDivSmallFrom(a, k, i, rem) ==
    IF i = 0 THEN <<rem>>
    ELSE <<(rem * Limb + a[i]) \div k>>
             \o NatDivSmallFrom(a, k, i - 1, (rem * Limb + a[i]) % k)

NatDivSmall(a, k) == QuotientOf(NatDivSmallFrom(a, k, Len(a), 0))

\* The number of bits of a digit: of the powers of two that are not above it
SmallBitLen(k) == Cardinality({n \in 0..(LimbBits - 1) : 2^n <= k})

BitLen(a) == IF a = <<>> THEN 0 ELSE (Len(a) - 1) * LimbBits + SmallBitLen(a[Len(a)])

\* The digit i of a, 0 above its highest and below its lowest
DigitAt(a, i) == IF i >= 1 /\ i <= Len(a) THEN a[i] ELSE 0

\* a * 2^r for r < LimbBits: each digit is the low bits of a digit of a, moved
\* up, over the high bits of the digit below it
ShiftedUp(a, r) ==
    Trim(<<>> \o [i \in 1..(Len(a) + 1) |->
                     (DigitAt(a, i) % 2^(LimbBits - r)) * 2^r
                         + DigitAt(a, i - 1) \div 2^(LimbBits - r)])

\* floor(a / 2^r) for r < LimbBits
ShiftedDown(a, r) ==
    Trim(<<>> \o [i \in 1..Len(a) |->
                     DigitAt(a, i) \div 2^r + (DigitAt(a, i + 1) % 2^r) * 2^(LimbBits - r)])

NatShl(a, s) == ShiftLimbs(ShiftedUp(a, s % LimbBits), s \div LimbBits)

NatShr(a, s) ==
    IF s \div LimbBits >= Len(a) THEN <<>>
    ELSE ShiftedDown(SubSeq(a, s \div LimbBits + 1, Len(a)), s % LimbBits)

IsOdd(a) == a # <<>> /\ a[1] % 2 = 1

NatOne == <<1>>

\* The numbers
NaN == [kind |-> "nan", sign |-> 1, m |-> <<>>, e |-> 0]
Infinity(sign) == [kind |-> "inf", sign |-> sign, m |-> <<>>, e |-> 0]
Zero == [kind |-> "num", sign |-> 1, m |-> <<>>, e |-> 0]
Finite(sign, m, e) == [kind |-> "num", sign |-> sign, m |-> m, e |-> e]
IsNaN(x) == x.kind = "nan"
IsZero(x) == x.kind = "num" /\ x.m = <<>>

\* q, or q + 1 when the part cut off is above half, or is half and q is odd
RoundedUp(q, rem, half) ==
    IF (IsOdd(q) /\ NatCmp(rem, half) >= 0) \/ (~IsOdd(q) /\ NatCmp(rem, half) > 0)
    THEN NatAdd(q, NatOne)
    ELSE q

\* sign * q * 2^e for q of Precision bits, or of one more after rounding up
Renormalised(sign, q, e) ==
    IF BitLen(q) > Precision THEN Finite(sign, NatShr(q, 1), e + 1) ELSE Finite(sign, q, e)

\* sign * a * 2^e with the lowest s bits of a rounded away; q is a without them
RoundedAway(sign, a, e, s, q) ==
    Let(NatSub(a, NatShl(q, s)),
        LAMBDA rem : Let(RoundedUp(q, rem, NatShl(NatOne, s - 1)),
                         LAMBDA up : Renormalised(sign, up, e + s)))

\* sign * a * 2^e rounded to the nearest double, ties to even
RoundToDouble(sign, a, e) ==
    IF a = <<>> THEN Zero
    ELSE IF BitLen(a) <= Precision
         THEN Finite(sign, NatShl(a, Precision - BitLen(a)), e - (Precision - BitLen(a)))
         ELSE Let(NatShr(a, BitLen(a) - Precision),
                  LAMBDA q : RoundedAway(sign, a, e, BitLen(a) - Precision, q))

\* An integer below 2^31 as a number
FromInt(k) == RoundToDouble(IF k < 0 THEN 0 - 1 ELSE 1, NatOf(IF k < 0 THEN 0 - k ELSE k), 0)

DNeg(x) == IF IsNaN(x) \/ IsZero(x) THEN x ELSE [x EXCEPT !.sign = 0 - x.sign]
DAbs(x) == IF IsNaN(x) THEN x ELSE [x EXCEPT !.sign = 1]

\* sx * a * 2^e + sy * b * 2^e
AddAligned(sx, a, sy, b, e) ==
    IF sx = sy THEN RoundToDouble(sx, NatAdd(a, b), e)
    ELSE IF NatCmp(a, b) = 0 THEN Zero
    ELSE IF NatCmp(a, b) > 0 THEN RoundToDouble(sx, NatSub(a, b), e)
    ELSE RoundToDouble(sy, NatSub(b, a), e)

\* x + y
DAdd(x, y) ==
    IF IsNaN(x) \/ IsNaN(y) THEN NaN
    ELSE IF x.kind = "inf" THEN (IF y.kind = "inf" /\ y.sign # x.sign THEN NaN ELSE x)
    ELSE IF y.kind = "inf" THEN y
    ELSE IF IsZero(x) THEN y
    ELSE IF IsZero(y) THEN x
    ELSE AddAligned(x.sign, NatShl(x.m, x.e - Min(x.e, y.e)),
                    y.sign, NatShl(y.m, y.e - Min(x.e, y.e)), Min(x.e, y.e))

DSub(x, y) == DAdd(x, DNeg(y))

\* x * y
DMul(x, y) ==
    IF IsNaN(x) \/ IsNaN(y) THEN NaN
    ELSE IF x.kind = "inf" \/ y.kind = "inf"
         THEN (IF IsZero(x) \/ IsZero(y) THEN NaN ELSE Infinity(x.sign * y.sign))
    ELSE IF IsZero(x) \/ IsZero(y) THEN Zero
    ELSE RoundToDouble(x.sign * y.sign, NatMul(x.m, y.m), x.e + y.e)

\* The highest digit d with b * d <= cur, from an estimate that is not below it
RECURSIVE LowerDigit(_, _, _)
LowerDigit(cur, b, d) ==
    IF NatCmp(NatMulSmall(b, d), cur) > 0 THEN LowerDigit(cur, b, d - 1) ELSE d

\* floor(cur / b) for cur < b * Limb, b with its highest digit at least Limb / 2
DivDigit(cur, b) ==
    IF NatCmp(cur, b) < 0 THEN 0
    ELSE LowerDigit(cur, b,
             Min(Limb - 1,
                 ((IF Len(cur) > Len(b) THEN cur[Len(b) + 1] * Limb ELSE 0) + cur[Len(b)])
                     \div b[Len(b)]))

\* Long division of the digits i..1 of a by b, with rem carried in from above:
\* cur is rem with the digit i of a below it, digit is the quotient's digit i.
\* The result is the quotient's digits i..1 and then the remainder.
RECURSIVE DivLimbs(_, _, _, _)
RECURSIVE DivLimbsAt(_, _, _, _)
RECURSIVE DivLimbsWith(_, _, _, _, _)
DivLimbsWith(a, b, i, cur, digit) ==
    <<digit>> \o DivLimbs(a, b, i - 1, NatSub(cur, NatMulSmall(b, digit)))

DivLimbsAt(a, b, i, cur) == DivLimbsWith(a, b, i, cur, DivDigit(cur, b))

DivLimbs(a, b, i, rem) ==
    IF i = 0 THEN <<rem>> ELSE DivLimbsAt(a, b, i, Trim(<<a[i]>> \o rem))

\* The digits of a above the lowest n
HighLimbs(a, n) == IF n >= Len(a) THEN <<>> ELSE SubSeq(a, n + 1, Len(a))

\* The quotient has no digit above the digit Len(a) - Len(b) + 1 of a: the
\* division starts there, with the digits of a above it as the remainder
DivNormal(a, b) ==
    IF Len(a) < Len(b) THEN <<a>>
    ELSE DivLimbs(a, b, Len(a) - Len(b) + 1, HighLimbs(a, Len(a) - Len(b) + 1))

DivResult(res) == [q |-> QuotientOf(res), exact |-> RemainderOf(res) = <<>>]

\* The shift that brings the highest digit of b to Limb / 2 or above
DivShift(b) == LimbBits - SmallBitLen(b[Len(b)])

\* floor(a / b) for b > 0, and whether the division is exact
NatDivMod(a, b) == DivResult(DivNormal(NatShl(a, DivShift(b)), NatShl(b, DivShift(b))))

QuotientBits == Precision + 3

\* sign * d * 2^e for a quotient d; an inexact quotient is made odd below its
\* last bit
QuotientRounded(sign, d, e) ==
    IF d.exact
    THEN RoundToDouble(sign, NatShl(d.q, 1), e - 1)
    ELSE RoundToDouble(sign, NatAdd(NatShl(d.q, 1), NatOne), e - 1)

\* x / y
DDiv(x, y) ==
    IF IsNaN(x) \/ IsNaN(y) THEN NaN
    ELSE IF x.kind = "inf" THEN (IF y.kind = "inf" THEN NaN ELSE Infinity(x.sign * y.sign))
    ELSE IF y.kind = "inf" THEN Zero
    ELSE IF IsZero(y) THEN (IF IsZero(x) THEN NaN ELSE Infinity(x.sign))
    ELSE IF IsZero(x) THEN Zero
    ELSE QuotientRounded(x.sign * y.sign, NatDivMod(NatShl(x.m, QuotientBits), y.m),
                         x.e - y.e - QuotientBits)

\* floor(sqrt(a)) by Newton's iteration from an estimate s that is not below it
RECURSIVE NatSqrtFrom(_, _)
RECURSIVE NatSqrtStep(_, _, _)
NatSqrtStep(a, s, next) == IF NatCmp(next, s) >= 0 THEN s ELSE NatSqrtFrom(a, next)

NatSqrtFrom(a, s) ==
    Let(NatDivMod(a, s).q, LAMBDA d : NatSqrtStep(a, s, NatShr(NatAdd(s, d), 1)))

\* floor(sqrt(k)) for 0 < k < Limb * Limb
RECURSIVE IntSqrtFrom(_, _)
IntSqrtFrom(k, s) ==
    IF (s + k \div s) \div 2 >= s THEN s ELSE IntSqrtFrom(k, (s + k \div s) \div 2)

\* Half the number of bits of a below its two highest digits
SqrtHalf(a) == Max(0, (BitLen(a) - LimbBits - LimbBits + 1) \div 2)

\* The value of a natural number of at most two digits
TwoDigits(top) == top[1] + (IF Len(top) > 1 THEN top[2] * Limb ELSE 0)

\* The first estimate is taken from the two highest digits of a
NatSqrt(a) ==
    NatSqrtFrom(a, NatShl(NatOf(IntSqrtFrom(TwoDigits(NatShr(a, SqrtHalf(a) + SqrtHalf(a))),
                                            Limb) + 1),
                          SqrtHalf(a)))

\* The root s of a times 2^e; an inexact root is made odd below its last bit
RootRounded(a, s, e) ==
    IF NatMul(s, s) = a
    THEN RoundToDouble(1, NatShl(s, 1), e - 1)
    ELSE RoundToDouble(1, NatAdd(NatShl(s, 1), NatOne), e - 1)

RootOf(a, e) == Let(NatSqrt(a), LAMBDA s : RootRounded(a, s, e))

\* The shift that makes the exponent even and leaves bits to round by
SqrtShift(x) == Precision + 4 + ((x.e + Precision) % 2)

\* Math.sqrt(x)
DSqrt(x) ==
    IF IsNaN(x) THEN NaN
    ELSE IF IsZero(x) THEN Zero
    ELSE IF x.sign < 0 THEN NaN
    ELSE IF x.kind = "inf" THEN x
    ELSE RootOf(NatShl(x.m, SqrtShift(x)), (x.e - SqrtShift(x)) \div 2)

\* The integer nearest to sign * (q + frac / (2 * half)), a tie going up
RoundedInteger(sign, q, frac, half) ==
    IF NatCmp(frac, half) > 0 \/ (NatCmp(frac, half) = 0 /\ sign > 0)
    THEN NatAdd(q, NatOne)
    ELSE q

\* x with its s bits below the point rounded away; q is |x| without them
RoundedAtPoint(x, s, q) ==
    RoundToDouble(x.sign,
                  RoundedInteger(x.sign, q, NatSub(x.m, NatShl(q, s)), NatShl(NatOne, s - 1)),
                  0)

\* Math.round(x)
DRound(x) ==
    IF x.kind # "num" \/ x.e >= 0 THEN x ELSE RoundedAtPoint(x, 0 - x.e, NatShr(x.m, 0 - x.e))

\* -1, 0 or 1 as |x| is below, equal to or above |y|, for numbers other than NaN
MagnitudeCmp(x, y) ==
    IF x.kind = "inf" THEN (IF y.kind = "inf" THEN 0 ELSE 1)
    ELSE IF y.kind = "inf" THEN 0 - 1
    ELSE IF IsZero(x) THEN (IF IsZero(y) THEN 0 ELSE 0 - 1)
    ELSE IF IsZero(y) THEN 1
    ELSE IF x.e < y.e THEN 0 - 1
    ELSE IF x.e > y.e THEN 1
    ELSE NatCmp(x.m, y.m)

\* -1, 0 or 1 as x is negative, zero or positive
SignOf(x) == IF IsZero(x) THEN 0 ELSE x.sign

\* -1, 0 or 1 as x is below, equal to or above y, for numbers other than NaN
DCmp(x, y) ==
    IF SignOf(x) < SignOf(y) THEN 0 - 1
    ELSE IF SignOf(x) > SignOf(y) THEN 1
    ELSE IF SignOf(x) = 0 THEN 0
    ELSE SignOf(x) * MagnitudeCmp(x, y)

\* x < y, x > y, x <= y, x >= y, x === y: false when either is NaN
DLess(x, y) == ~IsNaN(x) /\ ~IsNaN(y) /\ DCmp(x, y) < 0
DGreater(x, y) == DLess(y, x)
DAtMost(x, y) == ~IsNaN(x) /\ ~IsNaN(y) /\ DCmp(x, y) <= 0
DAtLeast(x, y) == DAtMost(y, x)
DEquals(x, y) == ~IsNaN(x) /\ ~IsNaN(y) /\ DCmp(x, y) = 0

DecimalBits == Precision + LimbBits + LimbBits

\* sign * res.q * 2^(-DecimalBits) for a quotient with remainder res.r
DecimalRounded(sign, res) ==
    IF RemainderOf(res) = 0
    THEN RoundToDouble(sign, NatShl(QuotientOf(res), 1), 0 - DecimalBits - 1)
    ELSE RoundToDouble(sign, NatAdd(NatShl(QuotientOf(res), 1), NatOne), 0 - DecimalBits - 1)

DecimalOf(sign, n, d) == DecimalRounded(sign, NatDivSmallFrom(n, d, Len(n), 0))

\* The double nearest to k / d for a digit d > 0: the number a decimal literal
\* denotes, and the value of k / d for an integer k
Decimal(k, d) ==
    IF k = 0 THEN Zero
    ELSE DecimalOf(IF k < 0 THEN 0 - 1 ELSE 1,
                   NatShl(NatOf(IF k < 0 THEN 0 - k ELSE k), DecimalBits), d)

(***************************************************************************)
(* CorrelationsService                                                     *)
(***************************************************************************)
\* The number a field of an entry holds: hours are kept in hundredths and
\* scores in 1/Unit points
Hours(h) == Decimal(h, 100)
Points(p) == Decimal(p, Unit)

Metrics ==
    <<"sleep_duration", "sleep_quality", "mood", "stress", "gi_flare", "skin_flare", "migraine">>

\* e.<metric>; the default branch of analyzeTrends' switch is 0
MetricValue(e, metric) ==
    CASE metric = "sleep_duration" -> Hours(e.duration_hours)
      [] metric = "sleep_quality" -> Points(e.quality_score)
      [] metric = "mood" -> Points(e.mood_score)
      [] metric = "stress" -> Points(e.stress_score)
      [] metric = "gi_flare" -> Points(e.gi_flare)
      [] metric = "skin_flare" -> Points(e.skin_flare)
      [] metric = "migraine" -> Points(e.migraine)
      [] OTHER -> Zero

\* entries.map(e => e.<metric>)
Column(entries, metric) == Map(LAMBDA i : MetricValue(entries[i], metric), Len(entries))

\* values.reduce((a, b) => a + b, 0)
DSum(values) == Reduce(LAMBDA acc, i : DAdd(acc, values[i]), 1, Len(values), Zero)

\* x.reduce((acc, xi, i) => acc + xi * y[i], 0)
DSumProducts(x, y) == Reduce(LAMBDA acc, i : DAdd(acc, DMul(x[i], y[i])), 1, Len(x), Zero)

\* denominator === 0 ? 0 : numerator / denominator
Quotient(numerator, denominator) ==
    IF DEquals(denominator, Zero) THEN Zero ELSE DDiv(numerator, denominator)

\* The Pearson coefficient from the six sums
Pearson(s) ==
    Let(DSqrt(DMul(DSub(DMul(s.n, s.sumX2), DMul(s.sumX, s.sumX)),
                   DSub(DMul(s.n, s.sumY2), DMul(s.sumY, s.sumY)))),
        LAMBDA denominator :
            Quotient(DSub(DMul(s.n, s.sumXY), DMul(s.sumX, s.sumY)), denominator))

\* Mutant of calculateCorrelation: the sum of the squares of y is taken from
\* the products of x and y
calculateCorrelation_Lopsided(x, y) ==
    IF Len(x) # Len(y) \/ Len(x) = 0 THEN Zero
    ELSE Let([n |-> FromInt(Len(x)), sumX |-> DSum(x), sumY |-> DSum(y),
              sumXY |-> DSumProducts(x, y), sumX2 |-> DSumProducts(x, x),
              sumY2 |-> DSumProducts(x, y)], Pearson)

\* calculateCorrelation: the Pearson coefficient of two arrays
calculateCorrelation(x, y) ==
    IF Len(x) # Len(y) \/ Len(x) = 0 THEN Zero
    ELSE Let([n |-> FromInt(Len(x)), sumX |-> DSum(x), sumY |-> DSum(y),
              sumXY |-> DSumProducts(x, y), sumX2 |-> DSumProducts(x, x),
              sumY2 |-> DSumProducts(y, y)], Pearson)

\* The p-value bucket of a t statistic
SignificanceOf(t) ==
    IF DGreater(t, Decimal(2576, 1000)) THEN Decimal(1, 100)
    ELSE IF DGreater(t, Decimal(196, 100)) THEN Decimal(5, 100)
    ELSE IF DGreater(t, Decimal(1645, 1000)) THEN Decimal(10, 100)
    ELSE Decimal(20, 100)

\* calculateSignificance: a p-value bucket from a crude t statistic
calculateSignificance(correlation, sampleSize) ==
    IF sampleSize < 3 THEN FromInt(1)
    ELSE SignificanceOf(DMul(DAbs(correlation),
                             DSqrt(DDiv(FromInt(sampleSize - 2),
                                        DSub(FromInt(1), DMul(correlation, correlation))))))

\* getCorrelationStrength(correlation).strength
getCorrelationStrength(correlation) ==
    IF DAtLeast(DAbs(correlation), Decimal(7, 10)) THEN "strong"
    ELSE IF DAtLeast(DAbs(correlation), Decimal(5, 10)) THEN "moderate"
    ELSE IF DAtLeast(DAbs(correlation), Decimal(3, 10)) THEN "weak"
    ELSE "weak"

\* The pairs analyzeSleepCorrelations looks at, in its order
CorrelationPairs ==
    << <<"sleep_duration", "gi_flare">>, <<"sleep_duration", "skin_flare">>,
       <<"sleep_duration", "migraine">>, <<"sleep_quality", "gi_flare">>,
       <<"sleep_quality", "skin_flare">>, <<"sleep_quality", "migraine">>,
       <<"mood", "gi_flare">>, <<"stress", "gi_flare">> >>

\* One pushed correlation: which of the two insight texts is chosen depends on
\* corr < 0 for every pair but stress, where it is corr > 0
SleepCorrelation(pair, corr) ==
    [sleepMetric |-> pair[1], symptomMetric |-> pair[2],
     correlation |-> corr,
     strength |-> getCorrelationStrength(corr),
     description |-> IF DLess(corr, Zero) THEN "negatively" ELSE "positively",
     actionableInsight |->
         IF pair[1] = "stress"
         THEN (IF DGreater(corr, Zero) THEN "may increase" ELSE "may help")
         ELSE (IF DLess(corr, Zero) THEN "may increase" ELSE "may help")]

\* Array.prototype.sort with (a, b) => Math.abs(b.correlation) -
\* Math.abs(a.correlation): stable, strongest first
RECURSIVE InsertByCorrelation(_, _)
InsertByCorrelation(c, sorted) ==
    IF sorted = <<>> THEN <<c>>
    ELSE IF DGreater(DAbs(c.correlation), DAbs(Head(sorted).correlation))
         THEN <<c>> \o sorted
         ELSE <<Head(sorted)>> \o InsertByCorrelation(c, Tail(sorted))

SortedByCorrelation(pushed) ==
    Reduce(LAMBDA sorted, i : InsertByCorrelation(pushed[i], sorted), 1, Len(pushed), <<>>)

\* What the i-th pair pushes: its correlation when Math.abs(corr) > 0.2
PushedWith(i, corr) ==
    IF DGreater(DAbs(corr), Decimal(2, 10))
    THEN <<SleepCorrelation(CorrelationPairs[i], corr)>>
    ELSE <<>>

PushedAt(entries, i) ==
    Let(calculateCorrelation(Column(entries, CorrelationPairs[i][1]),
                             Column(entries, CorrelationPairs[i][2])),
        LAMBDA corr : PushedWith(i, corr))

\* The correlations in the order they are pushed
Pushed(entries) ==
    Reduce(LAMBDA correlations, i : correlations \o PushedAt(entries, i),
           1, Len(CorrelationPairs), <<>>)

CorrelationsOver(entries) == Let(Pushed(entries), SortedByCorrelation)

\* Mutant of analyzeSleepCorrelations: two entries are enough
analyzeSleepCorrelations_FromTwo(entries) ==
    IF Len(entries) < 2 THEN <<>> ELSE CorrelationsOver(entries)

analyzeSleepCorrelations(entries) ==
    IF Len(entries) < CorrelationMinEntries THEN <<>> ELSE CorrelationsOver(entries)

DefaultTrendDays == 30

\* entries.slice(-days) for days >= 1
LastEntries(entries, days) ==
    SubSeq(entries, Max(1, Len(entries) - days + 1), Len(entries))

\* values.map((_, i) => i)
Indices(n) == Map(LAMBDA i : FromInt(i - 1), n)

\* The record analyzeTrends returns
TrendAnalysis(metric, days, count, slope, changeRate) ==
    [metric |-> metric,
     trend |-> IF DLess(DAbs(changeRate), FromInt(5)) THEN "stable"
               ELSE IF DGreater(changeRate, Zero) THEN "increasing"
               ELSE "decreasing",
     changeRate |-> DAbs(changeRate),
     period |-> days,
     significance |-> calculateSignificance(DAbs(slope), count)]

\* changeRate = (slope / (sumY / n)) * 100
TrendOfSlope(metric, days, count, sumY, slope) ==
    Let(DMul(DDiv(slope, DDiv(sumY, FromInt(count))), FromInt(100)),
        LAMBDA changeRate : TrendAnalysis(metric, days, count, slope, changeRate))

\* slope = (n * sumXY - sumX * sumY) / (n * sumX2 - sumX * sumX)
TrendOfSums(metric, days, count, s) ==
    Let(DDiv(DSub(DMul(s.n, s.sumXY), DMul(s.sumX, s.sumY)),
             DSub(DMul(s.n, s.sumX2), DMul(s.sumX, s.sumX))),
        LAMBDA slope : TrendOfSlope(metric, days, count, s.sumY, slope))

TrendOfValues(metric, days, values, x) ==
    Let([n |-> FromInt(Len(values)), sumX |-> DSum(x), sumY |-> DSum(values),
         sumXY |-> DSumProducts(x, values), sumX2 |-> DSumProducts(x, x)],
        LAMBDA s : TrendOfSums(metric, days, Len(values), s))

TrendOfRecent(metric, days, values) ==
    IF Len(values) < 2 THEN None
    ELSE Some(TrendOfValues(metric, days, values, Indices(Len(values))))

\* analyzeTrends: None for null
analyzeTrends(entries, metric, days) ==
    IF Len(entries) < CorrelationMinEntries THEN None
    ELSE Let(Column(LastEntries(entries, days), metric),
             LAMBDA values : TrendOfRecent(metric, days, values))

\* An insight; title and recommendation are kept as the words that tell the
\* texts apart, the description and data fields are left out
HealthInsight(type, title, confidence, recommendation) ==
    [type |-> type, title |-> title, confidence |-> confidence,
     actionable |-> TRUE, recommendation |-> recommendation]

\* entries.filter(d => d < 6).length
ShortNights(durations) ==
    Cardinality({i \in 1..Len(durations) : DLess(durations[i], FromInt(6))})

\* reduce((sum, d) => sum + Math.pow(d - avg, 2), 0); Math.pow(d, 2) is taken
\* as d * d
SumSquaredDeviations(values, avg) ==
    Reduce(LAMBDA sum, i : DAdd(sum, DMul(DSub(values[i], avg), DSub(values[i], avg))),
           1, Len(values), Zero)

\* Math.sqrt(durationVariance) > 1.5
IrregularSchedule(sleepDurations, avgDuration, n) ==
    Let(DSqrt(DDiv(SumSquaredDeviations(sleepDurations, avgDuration), n)),
        LAMBDA durationStdDev :
            IF DGreater(durationStdDev, Decimal(15, 10))
            THEN <<HealthInsight("pattern", <<"Irregular Sleep Schedule">>, Decimal(8, 10),
                                 <<"consistent bedtime">>)>>
            ELSE <<>>)

\* shortSleepDays / sleepDurations.length > 0.3
SleepDeprivation(sleepDurations, n) ==
    IF DGreater(DDiv(FromInt(ShortNights(sleepDurations)), n), Decimal(3, 10))
    THEN <<HealthInsight("pattern", <<"Frequent Sleep Deprivation">>, Decimal(9, 10),
                         <<"7-9 hours">>)>>
    ELSE <<>>

\* qualityDurationCorr < 0.3
QualityMismatch(qualityDurationCorr) ==
    IF DLess(qualityDurationCorr, Decimal(3, 10))
    THEN <<HealthInsight("pattern", <<"Sleep Quality vs Duration Mismatch">>,
                         Decimal(7, 10), <<"sleep quality factors">>)>>
    ELSE <<>>

\* The pattern insights of the two columns of n values
SleepPatternInsights(sleepDurations, sleepQualities, n) ==
    Let(DDiv(DSum(sleepDurations), n),
        LAMBDA avgDuration : IrregularSchedule(sleepDurations, avgDuration, n))
    \o SleepDeprivation(sleepDurations, n)
    \o Let(calculateCorrelation(sleepDurations, sleepQualities), QualityMismatch)

\* analyzeSleepPatterns
analyzeSleepPatterns(entries) ==
    IF Len(entries) < InsightMinEntries THEN <<>>
    ELSE Let(Column(entries, "sleep_duration"),
             LAMBDA sleepDurations :
                 SleepPatternInsights(sleepDurations, Column(entries, "sleep_quality"),
                                      FromInt(Len(entries))))

\* Mutant of SortedByConfidence: the insights stay in the order they were pushed
SortedByConfidence_AsPushed(insights) == insights

\* Array.prototype.sort with (a, b) => b.confidence - a.confidence
RECURSIVE InsertByConfidence(_, _)
InsertByConfidence(x, sorted) ==
    IF sorted = <<>> THEN <<x>>
    ELSE IF DGreater(x.confidence, Head(sorted).confidence)
         THEN <<x>> \o sorted
         ELSE <<Head(sorted)>> \o InsertByConfidence(x, Tail(sorted))

SortedByConfidence(insights) ==
    Reduce(LAMBDA sorted, i : InsertByConfidence(insights[i], sorted), 1, Len(insights), <<>>)

\* The insight of a correlation with Math.abs(corr.correlation) > 0.3
CorrelationInsight(corr) ==
    IF DGreater(DAbs(corr.correlation), Decimal(3, 10))
    THEN <<HealthInsight("correlation", <<corr.sleepMetric, "&", corr.symptomMetric>>,
                         DAbs(corr.correlation), <<corr.actionableInsight>>)>>
    ELSE <<>>

CorrelationInsights(correlations) ==
    Reduce(LAMBDA insights, i : insights \o CorrelationInsight(correlations[i]),
           1, Len(correlations), <<>>)

\* The insight of a metric whose trend has changeRate > 10; the
\* recommendation is getTrendRecommendation's entry for (metric, trend)
\* The insight pushed for a trend; its data is the trend.  The data of the
\* other insights is left out.
TrendInsight(metric, trend) ==
    IF trend # None /\ DGreater(trend[1].changeRate, FromInt(10))
    THEN <<[type |-> "trend", title |-> <<metric, "Trend">>,
            confidence |-> DSub(FromInt(1), trend[1].significance),
            actionable |-> TRUE, recommendation |-> <<metric, trend[1].trend>>,
            data |-> trend[1]]>>
    ELSE <<>>

TrendInsights(entries) ==
    Reduce(LAMBDA insights, i :
               insights \o Let(analyzeTrends(entries, Metrics[i], DefaultTrendDays),
                               LAMBDA trend : TrendInsight(Metrics[i], trend)),
           1, Len(Metrics), <<>>)

NeedMoreData ==
    HealthInsight("pattern", <<"Need More Data">>, FromInt(1), <<"Continue logging daily">>)

\* CorrelationsService.generateInsights
generateInsights(entries) ==
    IF Len(entries) < InsightMinEntries THEN <<NeedMoreData>>
    ELSE Let(Let(analyzeSleepCorrelations(entries), CorrelationInsights)
                 \o TrendInsights(entries)
                 \o analyzeSleepPatterns(entries),
             SortedByConfidence)

(***************************************************************************)
(* InsightsService                                                         *)
(***************************************************************************)
Insight(id, type, priority, confidence) ==
    [id |-> id, type |-> type, title |-> id, actionable |-> TRUE,
     priority |-> priority, confidence |-> confidence, category |-> "warning"]

\* data.filter(d => d.sleep.duration_hours && d.sleep.quality_score) and its
\* like for the mood and the stress score
WithSleep(e) == e.duration_hours # 0 /\ e.quality_score # 0
WithMood(e) == e.mood_score # 0
WithStress(e) == e.stress_score # 0

\* values.reduce((a, b) => a + b, 0) / values.length
Average(values) == DDiv(DSum(values), FromInt(Len(values)))

SleepDurationInsights(durations) ==
    IF Len(durations) < 7 THEN <<>>
    ELSE IF DLess(Average(durations), Decimal(65, 10))
         THEN <<Insight("sleep_duration_low", "sleep", "high", Decimal(9, 10))>>
         ELSE <<>>

\* InsightsService.analyzeSleepPatterns
InsightsService_analyzeSleepPatterns(data) ==
    SleepDurationInsights(Column(SelectSeq(data, WithSleep), "sleep_duration"))

MoodInsights(moods) ==
    IF Len(moods) < 7 THEN <<>>
    ELSE IF DLess(DDiv(DSum(SubSeq(moods, Len(moods) - 6, Len(moods))), FromInt(7)),
                  DSub(Average(moods), Decimal(15, 10)))
         THEN <<Insight("mood_declining", "mood", "high", Decimal(8, 10))>>
         ELSE <<>>

\* InsightsService.analyzeMoodTrends
InsightsService_analyzeMoodTrends(data) ==
    MoodInsights(Column(SelectSeq(data, WithMood), "mood"))

StressInsights(stressLevels) ==
    IF Len(stressLevels) < 7 THEN <<>>
    ELSE IF DGreater(Average(stressLevels), FromInt(7))
         THEN <<Insight("high_stress", "stress", "high", Decimal(9, 10))>>
         ELSE <<>>

\* InsightsService.analyzeStressPatterns
InsightsService_analyzeStressPatterns(data) ==
    StressInsights(Column(SelectSeq(data, WithStress), "stress"))

PriorityOrder(priority) ==
    CASE priority = "high" -> 3 [] priority = "medium" -> 2 [] priority = "low" -> 1

\* Array.prototype.sort by priority, then by confidence, highest first
RECURSIVE InsertByPriority(_, _)
InsertByPriority(x, sorted) ==
    IF sorted = <<>> THEN <<x>>
    ELSE IF \/ PriorityOrder(x.priority) > PriorityOrder(Head(sorted).priority)
            \/ /\ PriorityOrder(x.priority) = PriorityOrder(Head(sorted).priority)
               /\ DGreater(x.confidence, Head(sorted).confidence)
         THEN <<x>> \o sorted
         ELSE <<Head(sorted)>> \o InsertByPriority(x, Tail(sorted))

SortedByPriority(insights) ==
    Reduce(LAMBDA sorted, i : InsertByPriority(insights[i], sorted), 1, Len(insights), <<>>)

InsightsOfSorted(sortedData) ==
    Let(InsightsService_analyzeSleepPatterns(sortedData)
            \o InsightsService_analyzeMoodTrends(sortedData)
            \o InsightsService_analyzeStressPatterns(sortedData),
        SortedByPriority)

\* InsightsService.generateInsights: the insights it resolves to
InsightsService_generateInsights(data) ==
    IF Len(data) < 7 THEN <<>> ELSE Let(SortByDate(data, TRUE), InsightsOfSorted)

\* The order InsightsService.generateInsights leaves the caller's array in
AfterInsightsSort(data) == IF Len(data) < 7 THEN data ELSE SortByDate(data, TRUE)

(***************************************************************************)
(* HealthService and SleepTrackingScreen: the sleep duration               *)
(***************************************************************************)
\* A string is the sequence of its characters
Digits == <<"0", "1", "2", "3", "4", "5", "6", "7", "8", "9">>

\* n.toString() for a natural number n
RECURSIVE NumberToString(_)
NumberToString(n) ==
    IF n < 10 THEN <<Digits[n + 1]>> ELSE Append(NumberToString(n \div 10), Digits[(n % 10) + 1])

\* s.padStart(length, pad) for a one-character pad
RECURSIVE PadStart(_, _, _)
PadStart(s, length, pad) == IF Len(s) >= length THEN s ELSE PadStart(<<pad>> \o s, length, pad)

\* The time the picker stores: `${hours}:${minutes}`, each padded to two digits
TimeString(hours, minutes) ==
    PadStart(NumberToString(hours), 2, "0") \o <<":">> \o PadStart(NumberToString(minutes), 2, "0")

\* s.split(sep) for a one-character separator
RECURSIVE Split(_, _)
Split(s, sep) ==
    IF \A i \in 1..Len(s) : s[i] # sep THEN <<s>>
    ELSE LET at == CHOOSE i \in 1..Len(s) : s[i] = sep /\ \A j \in 1..(i - 1) : s[j] # sep
         IN  <<SubSeq(s, 1, at - 1)>> \o Split(SubSeq(s, at + 1, Len(s)), sep)

DigitValue(c) == CHOOSE d \in 0..9 : Digits[d + 1] = c

\* Number(s) for a string of decimal digits
RECURSIVE NumberOf(_)
NumberOf(s) ==
    IF s = <<>> THEN 0 ELSE NumberOf(SubSeq(s, 1, Len(s) - 1)) * 10 + DigitValue(s[Len(s)])

\* const [hour, min] = time.split(':').map(Number); hour * 60 + min
MinutesOf(time) ==
    NumberOf(Split(time, ":")[1]) * MinutesPerHour + NumberOf(Split(time, ":")[2])

\* endMinutes - startMinutes, after a day is added to an end before the start
DurationMinutes(startMinutes, endMinutes) ==
    IF endMinutes < startMinutes
    THEN endMinutes + HoursPerDay * MinutesPerHour - startMinutes
    ELSE endMinutes - startMinutes

\* Mutant of calculateSleepDuration: an end before the start is left as it is
calculateSleepDuration_NoWrap(startTime, endTime) ==
    DDiv(FromInt(MinutesOf(endTime) - MinutesOf(startTime)), FromInt(MinutesPerHour))

\* HealthService.calculateSleepDuration
calculateSleepDuration(startTime, endTime) ==
    DDiv(FromInt(DurationMinutes(MinutesOf(startTime), MinutesOf(endTime))),
         FromInt(MinutesPerHour))

\* calculateSleepDuration of SleepTrackingScreen
SleepTrackingScreen_calculateSleepDuration(start, end) ==
    DDiv(DRound(DMul(DDiv(FromInt(DurationMinutes(MinutesOf(start), MinutesOf(end))),
                          FromInt(MinutesPerHour)),
                     FromInt(100))),
         FromInt(100))

(***************************************************************************)
(* Bounds and inputs of the gamification state machine                     *)
(***************************************************************************)
MaxEntries == 3        \* longest entry list the caller passes
MaxCalls == 3          \* updateStats calls in one run
MaxRejections == 1     \* AsyncStorage calls that reject in one run

StartDay == MaxEntries
StartTime == DateParse(StartDay) + 9

\* Zones: UTC; a zone whose clocks fall back one hour at 06:00 UTC of the day
\* before StartDay (UTC-4 before, UTC-5 after); a zone whose clocks spring
\* forward at 01:00 UTC of that day (UTC+1 before, UTC+2 after).
UTCZone == [base |-> 0, shift |-> 0, at |-> 0]
FallBackZone == [base |-> 0 - 4, shift |-> 0 - 1, at |-> DateParse(StartDay - 1) + 6]
SpringZone == [base |-> 1, shift |-> 1, at |-> DateParse(StartDay - 1) + 1]

\* A day's scores, in points: good (mood 9, sleep 9, stress 2) or bad
GoodDay(d) == MkEntry(d, 800, 9 * Unit, 9 * Unit, 2 * Unit, 0, 0, 0)
BadDay(d)  == MkEntry(d, 500, 2 * Unit, 2 * Unit, 9 * Unit, Unit, 0, 0)

Reverse(s) == [i \in 1..Len(s) |-> s[Len(s) + 1 - i]]

\* len entries on consecutive days, the last on day last, oldest first
DailyRun(len, last, Day(_)) == [i \in 1..len |-> Day(last - len + i)]

\* The entry lists the caller passes: runs of good days that end on the first
\* day, oldest first (updateStats leaves its argument newest first), and one
\* bad day
RunsOf(Day(_)) == {DailyRun(len, StartDay, Day) : len \in 0..MaxEntries}

Datasets == RunsOf(GoodDay) \cup {DailyRun(1, StartDay, BadDay)}

StorageKeys == {"badges", "achievements", "userStats"}

NoCall == [op |-> "none", ret |-> <<>>]

(***************************************************************************)
(* GamificationService: the operations                                     *)
(***************************************************************************)
\* The outcomes of an AsyncStorage call: it resolves (TRUE) or rejects (FALSE);
\* a call that is not made has the one outcome TRUE.
Outcomes(made) == IF made THEN BOOLEAN ELSE {TRUE}
Rejected(ok) == IF ok THEN 0 ELSE 1

\* updateStats(data), with each AsyncStorage.setItem succeeding or rejecting
\* (a rejection is caught and logged by saveBadges, saveAchievements and
\* saveStats).  The array is the caller's: it is left as the sorts leave it.
UpdateStats(data) ==
    \E stats0 \in {calculateStats(data, now, tz)} :
    \E table \in {checkBadges(badges, AfterStreakSort(data), stats0, now)} :
    \E achTable \in {checkAchievements(achievements, stats0, now)} :
    \E newB \in {NewlyUnlocked(BadgeIds, badges, table)} :
    \E newA \in {NewlyUnlocked(AchievementIds, achievements, achTable)} :
    \E stats \in {[totalLogs        |-> stats0.totalLogs,
                     totalDays        |-> stats0.totalDays,
                     averageMood      |-> stats0.averageMood,
                     averageSleep     |-> stats0.averageSleep,
                     averageStress    |-> stats0.averageStress,
                     improvementTrend |-> stats0.improvementTrend,
                     badges           |-> table,
                     achievements     |-> achTable,
                     streaks          |-> stats0.streaks,
                     level            |-> stats0.level,
                     experience       |-> stats0.experience,
                     nextLevelExp     |-> stats0.nextLevelExp]} :
    \E jsonB \in {Some(JsonTable(table))}, jsonA \in {Some(JsonTable(achTable))} :
    \E jsonS \in {Some(JsonStats(stats))} :
        /\ healthData' = AfterBadgeSort(data, badges)
        /\ badges' = table
        /\ achievements' = achTable
        /\ userStats' = Some(stats)
        /\ \E okBadges \in Outcomes(newB # <<>>), okAchievements \in Outcomes(newA # <<>>),
              okStats \in BOOLEAN :
              /\ rejections' = rejections + Rejected(okBadges) + Rejected(okAchievements)
                                           + Rejected(okStats)
              /\ rejections' <= MaxRejections
              /\ storage' = [k \in StorageKeys |->
                    CASE k = "badges" ->
                           IF newB # <<>> /\ okBadges THEN jsonB ELSE storage[k]
                      [] k = "achievements" ->
                           IF newA # <<>> /\ okAchievements THEN jsonA ELSE storage[k]
                      [] k = "userStats" ->
                           IF okStats THEN jsonS ELSE storage[k]]
        /\ call' = [op |-> "updateStats",
                    ret |-> [newBadges |-> newB, newAchievements |-> newA]]
        /\ UNCHANGED <<tz, timeArgs, notificationVars>>

\* loadBadges(): the stored table, when there is one and it can be read,
\* replaces the in-memory table.
LoadBadges ==
    \E ok \in BOOLEAN :
        /\ rejections' = rejections + Rejected(ok)
        /\ rejections' <= MaxRejections
        /\ badges' = IF ok /\ storage["badges"] # None
                     THEN storage["badges"][1] ELSE badges
        /\ call' = [op |-> "loadBadges", ret |-> <<>>]
        /\ UNCHANGED <<now, tz, healthData, achievements, userStats, storage, timeArgs, notificationVars>>

\* loadAchievements()
LoadAchievements ==
    \E ok \in BOOLEAN :
        /\ rejections' = rejections + Rejected(ok)
        /\ rejections' <= MaxRejections
        /\ achievements' = IF ok /\ storage["achievements"] # None
                           THEN storage["achievements"][1] ELSE achievements
        /\ call' = [op |-> "loadAchievements", ret |-> <<>>]
        /\ UNCHANGED <<now, tz, healthData, badges, userStats, storage, timeArgs, notificationVars>>

\* ProgressBadgesWidget calls updateStats with the entry list it is rendered
\* with: a new list, or the array of the previous call again.  Half a day
\* passes between two renderings.
TimeBetweenCalls == HoursPerDay \div 2

Render ==
    /\ now < StartTime + MaxCalls * TimeBetweenCalls
    /\ \E data \in Datasets \cup {healthData} : UpdateStats(data)
    /\ now' = now + TimeBetweenCalls

\* NotificationService as constructed: not initialized, every reminder
\* enabled, and nothing scheduled on the device.  Of each reminder only its
\* enabled flag is kept: the times and messages do not decide what is
\* scheduled.
DefaultReminderSettings ==
    [enabled |-> TRUE,
     morningReminder |-> [enabled |-> TRUE],
     eveningReminder |-> [enabled |-> TRUE],
     weeklyReminder |-> [enabled |-> TRUE]]

ReminderTypes == {"morning", "evening", "weekly"}

NoneScheduled == [t \in ReminderTypes |-> 0]

NotificationServiceConstructed ==
    /\ isInitialized = FALSE
    /\ reminderSettings = DefaultReminderSettings
    /\ scheduled = NoneScheduled

NoTimeArgs == <<>>

Init ==
    /\ now = StartTime
    /\ NotificationServiceConstructed
    /\ tz \in {UTCZone, FallBackZone}
    /\ healthData = <<>>
    /\ badges = initializeBadges
    /\ achievements = initializeAchievements
    /\ userStats = None
    /\ storage = [k \in StorageKeys |-> None]
    /\ rejections = 0
    /\ timeArgs = NoTimeArgs
    /\ call = NoCall

Next ==
    \/ Render
    \/ LoadBadges
    \/ LoadAchievements

Spec == Init /\ [][Next]_vars

(***************************************************************************)
(* updateStats as a function of its argument: the inputs                   *)
(***************************************************************************)
StreakWindow == 4      \* the days up to today that may or may not hold an entry
MaxExtraEntries == 1   \* entry lists are up to TrendMinEntries + MaxExtraEntries long

Zones == {UTCZone, FallBackZone, SpringZone}

\* The good days among the last StreakWindow days up to StartDay, oldest first
RECURSIVE DaysOf(_, _)
DaysOf(days, d) ==
    IF d > StartDay THEN <<>>
    ELSE (IF d \in days THEN <<GoodDay(d)>> ELSE <<>>) \o DaysOf(days, d + 1)

WindowLists ==
    {DaysOf(days, StartDay - StreakWindow) :
        days \in SUBSET ((StartDay - StreakWindow + 1)..StartDay)}

\* One entry a day, with the same scores every day, for len days up to StartDay
CountLists ==
    {DailyRun(len, StartDay, BadDay) : len \in 0..(TrendMinEntries + MaxExtraEntries)}

\* TrendMinEntries daily entries up to StartDay whose mood goes linearly from
\* moodFrom to moodTo points, with constant sleep quality and stress
LinearRun(moodFrom, moodTo, quality, stress) ==
    [i \in 1..TrendMinEntries |->
        MkEntry(StartDay - TrendMinEntries + i, 800, quality * Unit,
                moodFrom * Unit + (moodTo - moodFrom) * (i - 1),
                stress * Unit, 0, 0, 0)]

\* A list with its odd positions first, then its even positions
Interleave(s) ==
    LET odd == (Len(s) + 1) \div 2
    IN  [i \in 1..Len(s) |-> IF i <= odd THEN s[2 * i - 1] ELSE s[2 * (i - odd)]]

MoodLevels == {3, 6, 9}

LinearLists ==
    LET runs == {LinearRun(a, b, 7, 5) : a \in MoodLevels, b \in MoodLevels}
    IN  runs \cup {Reverse(r) : r \in runs} \cup {Interleave(r) : r \in runs}

\* TrendMinEntries daily entries up to StartDay: the first half with mood and
\* sleep quality low and stress high, the second half with mood and sleep
\* quality high and stress low, all in points
StepRun(low, high) ==
    [i \in 1..TrendMinEntries |->
        LET half == TrendMinEntries \div 2
            up   == IF i <= half THEN low ELSE high
            down == IF i <= half THEN high ELSE low
        IN  MkEntry(StartDay - TrendMinEntries + i, 800, up * Unit, up * Unit,
                    down * Unit, 0, 0, 0)]

StepLists ==
    LET runs == {StepRun(5, high) : high \in 6..8}
    IN  runs \cup {Reverse(r) : r \in runs}

\* The window lists with one of their entries a second time, at the end
DoubledLists == UNION {{l \o <<l[i]>> : i \in 1..Len(l)} : l \in WindowLists}

StatsInputs == WindowLists \cup CountLists \cup LinearLists \cup StepLists \cup DoubledLists

\* updateStats(healthData) on the array as it stands
Evaluate ==
    /\ UpdateStats(healthData)
    /\ now' = now

InitStats ==
    /\ now = StartTime
    /\ NotificationServiceConstructed
    /\ tz \in Zones
    /\ healthData \in StatsInputs
    /\ badges = initializeBadges
    /\ achievements = initializeAchievements
    /\ userStats = None
    /\ storage = [k \in StorageKeys |-> None]
    /\ rejections = 0
    /\ timeArgs = NoTimeArgs
    /\ call = NoCall

NextStats == Evaluate

SpecStats == InitStats /\ [][NextStats]_vars

(***************************************************************************)
(* The correlation and insight functions: inputs and calls                 *)
(***************************************************************************)
MaxCorrEntries == 3    \* entry lists of every mix of days are up to this long

\* Days with 7.33 hours of sleep, without and with a GI flare
RestlessDay(d) == MkEntry(d, 733, 6 * Unit, 6 * Unit, 5 * Unit, 0, 0, 0)
FlareDay(d) == MkEntry(d, 733, 6 * Unit, 6 * Unit, 5 * Unit, Unit, 0, 0)

DayKinds == {"good", "restless", "flare"}

DayOf(kind, d) ==
    CASE kind = "good" -> GoodDay(d)
      [] kind = "restless" -> RestlessDay(d)
      [] kind = "flare" -> FlareDay(d)

\* Every mix of days, one entry a day up to StartDay, oldest first
MixedLists ==
    UNION {{[i \in 1..len |-> DayOf(kinds[i], StartDay - len + i)] :
               kinds \in [1..len -> DayKinds]} : len \in 0..MaxCorrEntries}

\* Longer lists: good and bad days in turn, restless days with a flare every
\* second day
Alternate(len, Odd(_), Even(_)) ==
    [i \in 1..len |-> IF i % 2 = 1 THEN Odd(StartDay - len + i) ELSE Even(StartDay - len + i)]

LongLists ==
    UNION {{Alternate(len, GoodDay, BadDay), Alternate(len, RestlessDay, FlareDay),
            Reverse(Alternate(len, BadDay, GoodDay))} :
               len \in (InsightMinEntries - 1)..(InsightMinEntries + MaxExtraEntries)}

\* TrendMinEntries days in chronological order with the mood going linearly
\* from one level to another, sleep quality 7 and stress 5
ExampleLists == {LinearRun(a, b, 7, 5) : a \in MoodLevels, b \in MoodLevels}

\* A week of three bad days, then days with a flare, then good days: the
\* nights are short on the bad days only, and the flares go with the short
\* and the restless nights
UnevenWeek(flares) ==
    [i \in 1..InsightMinEntries |->
        LET d == StartDay - InsightMinEntries + i
        IN  IF i <= 3 THEN BadDay(d) ELSE IF i <= 3 + flares THEN FlareDay(d) ELSE GoodDay(d)]

UnevenLists == {UnevenWeek(flares) : flares \in 1..2}

\* A week of good days with a flare after a 7.33-hour night on its second,
\* third and fourth day: the flare goes exactly with the shorter night
FlareWeek ==
    [i \in 1..InsightMinEntries |->
        LET d == StartDay - InsightMinEntries + i
        IN  IF i \in 2..4 THEN FlareDay(d) ELSE GoodDay(d)]

\* The list as HealthService keeps it, newest first, of TrendMinEntries days
\* whose mood goes from 3 to 9 points with the date
StoredRising == SortByDate(LinearRun(3, 9, 7, 5), FALSE)

CorrInputs ==
    MixedLists \cup LongLists \cup ExampleLists \cup UnevenLists \cup {FlareWeek, StoredRising}

\* The metric arrays of an entry list, and each without its last value
Columns(entries) == {Column(entries, Metrics[i]) : i \in 1..Len(Metrics)}

Shortened(columns) == {SubSeq(x, 1, Len(x) - 1) : x \in {c \in columns : c # <<>>}}

\* The functions keep nothing between calls: a behaviour is one call
NotCalled == call.op = "none"

Returned(op, ret) ==
    /\ call' = [op |-> op, ret |-> ret]
    /\ UNCHANGED <<now, tz, badges, achievements, userStats, storage, rejections, timeArgs, notificationVars>>

CalculateCorrelation ==
    /\ NotCalled
    /\ \E x \in Columns(healthData) :
       \E y \in Columns(healthData) \cup Shortened({x}) :
       \E r \in {calculateCorrelation(x, y)} :
           Returned("calculateCorrelation", [x |-> x, y |-> y, r |-> r])
    /\ UNCHANGED healthData

AnalyzeSleepCorrelations ==
    /\ NotCalled
    /\ \E ret \in {analyzeSleepCorrelations(healthData)} :
           Returned("analyzeSleepCorrelations", ret)
    /\ UNCHANGED healthData

TrendDays == {1, DefaultTrendDays}

AnalyzeTrends ==
    /\ NotCalled
    /\ \E i \in 1..Len(Metrics), days \in TrendDays :
       \E ret \in {analyzeTrends(healthData, Metrics[i], days)} :
           Returned("analyzeTrends", ret)
    /\ UNCHANGED healthData

GenerateInsights ==
    /\ NotCalled
    /\ \E ret \in {generateInsights(healthData)} :
           Returned("generateInsights", ret)
    /\ UNCHANGED healthData

InsightsServiceGenerateInsights ==
    /\ NotCalled
    /\ \E ret \in {InsightsService_generateInsights(healthData)} :
           Returned("insightsService.generateInsights", ret)
    /\ healthData' = AfterInsightsSort(healthData)

InitCorr ==
    /\ now = StartTime
    /\ NotificationServiceConstructed
    /\ tz = UTCZone
    /\ healthData \in CorrInputs
    /\ badges = initializeBadges
    /\ achievements = initializeAchievements
    /\ userStats = None
    /\ storage = [k \in StorageKeys |-> None]
    /\ rejections = 0
    /\ timeArgs = NoTimeArgs
    /\ call = NoCall

NextCorr ==
    \/ CalculateCorrelation
    \/ AnalyzeSleepCorrelations
    \/ AnalyzeTrends
    \/ GenerateInsights
    \/ InsightsServiceGenerateInsights

SpecCorr == InitCorr /\ [][NextCorr]_vars

(***************************************************************************)
(* The sleep duration functions: inputs and calls                          *)
(***************************************************************************)
\* The clock times tried: midnight, a morning and a late evening hour, with
\* minutes that are a whole, a third and other fractions of an hour
ClockHours == {0, 7, 23}
ClockMinutes == {0, 1, 20, 30, 59}
ClockTimes == {TimeString(h, m) : h \in ClockHours, m \in ClockMinutes}

HealthServiceCalculateSleepDuration ==
    /\ NotCalled
    /\ timeArgs # NoTimeArgs
    /\ \E ret \in {calculateSleepDuration(timeArgs[1], timeArgs[2])} :
           Returned("healthService.calculateSleepDuration", ret)
    /\ UNCHANGED healthData

ScreenCalculateSleepDuration ==
    /\ NotCalled
    /\ timeArgs # NoTimeArgs
    /\ \E ret \in {SleepTrackingScreen_calculateSleepDuration(timeArgs[1], timeArgs[2])} :
           Returned("sleepTrackingScreen.calculateSleepDuration", ret)
    /\ UNCHANGED healthData

InitSleep ==
    /\ now = StartTime
    /\ NotificationServiceConstructed
    /\ tz = UTCZone
    /\ healthData = <<>>
    /\ badges = initializeBadges
    /\ achievements = initializeAchievements
    /\ userStats = None
    /\ storage = [k \in StorageKeys |-> None]
    /\ rejections = 0
    /\ timeArgs \in ClockTimes \X ClockTimes
    /\ call = NoCall

NextSleep ==
    \/ HealthServiceCalculateSleepDuration
    \/ ScreenCalculateSleepDuration

SpecSleep == InitSleep /\ [][NextSleep]_vars

(***************************************************************************)
(* HealthService: the entries kept in local storage                        *)
(***************************************************************************)
\* The entry logEntry builds and the service stores.  Of a HealthEntrySchema
\* the date and the sleep data are kept; the mood data and the symptoms are
\* passed through in the same way as the quality score and left out.
HealthEntry(date, start, end, duration, quality) ==
    [date |-> date,
     sleep |-> [start_time |-> start, end_time |-> end,
                duration_hours |-> duration, quality_score |-> quality]]

\* Math.round(x * 100) / 100
RoundedToHundredths(x) == DDiv(DRound(DMul(x, FromInt(100))), FromInt(100))

\* The entry of logEntry(date, sleepStart, sleepEnd, quality, moodScore, ...)
LoggedEntry(date, sleepStart, sleepEnd, quality) ==
    HealthEntry(date, sleepStart, sleepEnd,
                RoundedToHundredths(calculateSleepDuration(sleepStart, sleepEnd)),
                quality)

\* JSON.stringify writes a number that is NaN or infinite as null
JsonNumber(x) == IF x.kind = "num" THEN x ELSE Null

\* JSON.parse(JSON.stringify(entries))
JsonEntries(entries) ==
    [i \in 1..Len(entries) |->
        [entries[i] EXCEPT !.sleep.duration_hours = JsonNumber(@)]]

\* existingEntries.findIndex(e => e.date === entry.date), from 0; -1 for none
findIndex(existingEntries, date) ==
    IF \E i \in 1..Len(existingEntries) : existingEntries[i].date = date
    THEN (CHOOSE i \in 1..Len(existingEntries) :
              /\ existingEntries[i].date = date
              /\ \A j \in 1..(i - 1) : existingEntries[j].date # date) - 1
    ELSE 0 - 1

\* Mutant of saveEntryLocally: the entry is always pushed
saveEntryLocally_Pushed(existingEntries, entry) ==
    SortByDate(Append(existingEntries, entry), FALSE)

\* saveEntryLocally: the list it writes, from the list it has read
saveEntryLocally(existingEntries, entry) ==
    IF findIndex(existingEntries, entry.date) >= 0
    THEN SortByDate([existingEntries EXCEPT ![findIndex(existingEntries, entry.date) + 1] = entry],
                    FALSE)
    ELSE SortByDate(Append(existingEntries, entry), FALSE)

\* The entries under STORAGE_KEY: none before the first write
HealthStorageKeys == {"health_entries"}

StoredEntries == IF storage["health_entries"] = None THEN <<>> ELSE storage["health_entries"][1]

\* getLocalEntries: the stored list, or [] when AsyncStorage.getItem rejects
getLocalEntries(okGet) == IF okGet THEN StoredEntries ELSE <<>>

\* entries.filter(entry => entry.date !== date)
WithoutDate(entries, date) == SelectSeq(entries, LAMBDA e : e.date # date)

\* The clock times and scores of the entries tried: a night over midnight, 20
\* minutes after midnight, two quality scores
Nights == {<<TimeString(23, 0), TimeString(7, 0)>>, <<TimeString(0, 0), TimeString(0, 20)>>}
Qualities == {5, 8}
HealthDates == {StartDay - 1, StartDay}

\* The entries the callers of updateHealthEntry pass: entries as logEntry builds
\* them, and entries whose times are those of one night and whose
\* duration_hours is that of another
LoggedEntries ==
    {LoggedEntry(d, n[1], n[2], q) : d \in HealthDates, n \in Nights, q \in Qualities}

EditedEntries ==
    {[e EXCEPT !.sleep.start_time = n[1], !.sleep.end_time = n[2]] :
        e \in {f \in LoggedEntries : f.sleep.quality_score = 5}, n \in Nights}

\* The texts importDataFromJSON is given: None for a text that is not JSON,
\* Some(entries) for the JSON of an array of up to two entries
ImportedEntries ==
    {e \in EditedEntries : e.sleep.start_time = TimeString(23, 0)}

ImportTexts ==
    {None, Some(<<>>)} \cup {Some(<<e>>) : e \in ImportedEntries}
        \cup {Some(<<e, f>>) : e \in ImportedEntries, f \in ImportedEntries}

\* What the service has done: the operation, whether its promise resolved,
\* its argument, and for a save the index at which the date was found
HealthCall(op, resolved, arg, entryIndex) ==
    [op |-> op, ret |-> IF resolved THEN "resolved" ELSE "rejected",
     arg |-> arg, entryIndex |-> entryIndex]

HealthStep(okGet, okSet, written) ==
    /\ rejections' = rejections + Rejected(okGet) + Rejected(okSet)
    /\ rejections' <= MaxRejections
    /\ storage' = IF okSet THEN [storage EXCEPT !["health_entries"] = Some(JsonEntries(written))]
                  ELSE storage

\* saveEntryLocally(entry) within op: getItem and setItem each resolve or
\* reject; a rejected setItem is rethrown and rejects op
Save(op, entry) ==
    \E okGet \in BOOLEAN, okSet \in BOOLEAN :
        /\ HealthStep(okGet, okSet, saveEntryLocally(getLocalEntries(okGet), entry))
        /\ call' = HealthCall(op, okSet, entry, findIndex(getLocalEntries(okGet), entry.date))

\* Mutant of logEntryResolves: the error of the server sync is not caught
logEntryResolves_SyncThrows(saved, okSync) == saved /\ okSync

\* logEntry resolves when saveEntryLocally did: the error of
\* syncEntryToServer is caught and logged
logEntryResolves(saved, okSync) == saved

\* What became of the server sync: it is not attempted when the local save
\* has thrown
SyncAttempt(saved, okSync) ==
    IF ~saved THEN "none" ELSE IF okSync THEN "synced" ELSE "failed"

\* logEntry(...): the entry it builds from its arguments (one of
\* LoggedEntries) is saved locally, then sent to the server, where
\* apiService.post succeeds or fails
LogEntry ==
    /\ \E entry \in LoggedEntries :
       \E okGet \in BOOLEAN, okSet \in BOOLEAN, okSync \in BOOLEAN :
           /\ HealthStep(okGet, okSet, saveEntryLocally(getLocalEntries(okGet), entry))
           /\ call' = [op |-> "logEntry",
                       ret |-> IF logEntryResolves(okSet, okSync) THEN "resolved" ELSE "rejected",
                       arg |-> entry,
                       entryIndex |-> findIndex(getLocalEntries(okGet), entry.date),
                       saved |-> okSet,
                       sync |-> SyncAttempt(okSet, okSync)]
    /\ UNCHANGED <<now, tz, healthData, badges, achievements, userStats, timeArgs, notificationVars>>

\* updateHealthEntry(entry): the local version is what is kept
UpdateHealthEntry ==
    /\ \E entry \in LoggedEntries \cup EditedEntries : Save("updateHealthEntry", entry)
    /\ UNCHANGED <<now, tz, healthData, badges, achievements, userStats, timeArgs, notificationVars>>

\* deleteHealthEntry(date): a rejected setItem rejects the call
DeleteHealthEntry ==
    /\ \E date \in HealthDates, okGet \in BOOLEAN, okSet \in BOOLEAN :
          /\ HealthStep(okGet, okSet, WithoutDate(getLocalEntries(okGet), date))
          /\ call' = HealthCall("deleteHealthEntry", okSet, date, 0 - 1)
    /\ UNCHANGED <<now, tz, healthData, badges, achievements, userStats, timeArgs, notificationVars>>

\* for (const entry of entries) await this.saveEntryLocally(entry): the
\* entries from the i-th on are saved in turn onto list, oks[i] telling
\* whether getItem and setItem resolve for the i-th; the first rejected
\* setItem ends the loop.  The result is the list stored, whether the loop
\* was ended, and the number of rejected calls.
RECURSIVE SavedEach(_, _, _, _, _)
SavedEach(list, entries, oks, i, rejected) ==
    IF i > Len(entries) THEN [list |-> list, thrown |-> FALSE, rejected |-> rejected]
    ELSE IF ~oks[i][2]
         THEN [list |-> list, thrown |-> TRUE,
               rejected |-> rejected + Rejected(oks[i][1]) + 1]
    ELSE SavedEach(JsonEntries(saveEntryLocally(IF oks[i][1] THEN list ELSE <<>>, entries[i])),
                   entries, oks, i + 1, rejected + Rejected(oks[i][1]))

\* importDataFromJSON(jsonData): a text that does not parse and a rejected
\* save both reject with 'Invalid JSON data format'; the entries saved before
\* stay saved, and nothing is written when no entry is saved
ImportDataFromJSON ==
    /\ \E jsonData \in ImportTexts :
          IF jsonData = None
          THEN /\ call' = HealthCall("importDataFromJSON", FALSE, jsonData, 0 - 1)
               /\ UNCHANGED <<storage, rejections>>
          ELSE \E oks \in [1..Len(jsonData[1]) -> BOOLEAN \X BOOLEAN] :
               \E done \in {SavedEach(StoredEntries, jsonData[1], oks, 1, 0)} :
                  /\ rejections' = rejections + done.rejected
                  /\ rejections' <= MaxRejections
                  /\ storage' = IF done.list = StoredEntries THEN storage
                                ELSE [storage EXCEPT !["health_entries"] = Some(done.list)]
                  /\ call' = HealthCall("importDataFromJSON", ~done.thrown, jsonData, 0 - 1)
    /\ UNCHANGED <<now, tz, healthData, badges, achievements, userStats, timeArgs, notificationVars>>

InitHealth ==
    /\ now = StartTime
    /\ NotificationServiceConstructed
    /\ tz = UTCZone
    /\ healthData = <<>>
    /\ badges = initializeBadges
    /\ achievements = initializeAchievements
    /\ userStats = None
    /\ storage = [k \in HealthStorageKeys |-> None]
    /\ rejections = 0
    /\ timeArgs = NoTimeArgs
    /\ call = NoCall

NextHealth ==
    \/ LogEntry
    \/ UpdateHealthEntry
    \/ DeleteHealthEntry
    \/ ImportDataFromJSON

SpecHealth == InitHealth /\ [][NextHealth]_vars

(***************************************************************************)
(* HealthService: two saves in flight at once                              *)
(***************************************************************************)
\* Two callers (two screens, or one screen tapped twice) each call logEntry
\* or updateHealthEntry once.  A call runs until its next await and goes on
\* when the awaited AsyncStorage call returns, so the steps of the two calls
\* interleave at getItem and at setItem.  call[p] is the position of caller p:
\* idle, awaiting getItem, awaiting setItem (with the text it handed to
\* setItem), resolved or rejected.
Callers == 1..2

Idle == [pc |-> "idle"]

\* The call is made: saveEntryLocally runs up to await AsyncStorage.getItem
CallSave ==
    /\ \E p \in Callers :
          /\ call[p].pc = "idle"
          /\ \E entry \in LoggedEntries \cup EditedEntries :
                call' = [call EXCEPT ![p] = [pc |-> "getItem", entry |-> entry]]
    /\ UNCHANGED <<now, tz, healthData, badges, achievements, userStats, storage,
                   rejections, timeArgs, notificationVars>>

\* getItem returns: the list read (or [] when it rejected) gets the entry, is
\* sorted and stringified, and saveEntryLocally runs up to await
\* AsyncStorage.setItem
GetItemReturns ==
    /\ \E p \in Callers, okGet \in BOOLEAN :
          /\ call[p].pc = "getItem"
          /\ rejections' = rejections + Rejected(okGet)
          /\ rejections' <= MaxRejections
          /\ call' = [call EXCEPT ![p] =
                         [pc |-> "setItem", entry |-> call[p].entry,
                          text |-> JsonEntries(saveEntryLocally(getLocalEntries(okGet),
                                                                call[p].entry))]]
    /\ UNCHANGED <<now, tz, healthData, badges, achievements, userStats, storage, timeArgs, notificationVars>>

\* setItem returns: the text is stored and the call resolves (whatever the
\* server sync does), or setItem rejected and the call rejects
SetItemReturns ==
    /\ \E p \in Callers, okSet \in BOOLEAN :
          /\ call[p].pc = "setItem"
          /\ rejections' = rejections + Rejected(okSet)
          /\ rejections' <= MaxRejections
          /\ storage' = IF okSet
                         THEN [storage EXCEPT !["health_entries"] = Some(call[p].text)]
                         ELSE storage
          /\ call' = [call EXCEPT ![p] =
                         [pc |-> IF okSet THEN "resolved" ELSE "rejected",
                          entry |-> call[p].entry]]
    /\ UNCHANGED <<now, tz, healthData, badges, achievements, userStats, timeArgs, notificationVars>>

InitOverlap ==
    /\ now = StartTime
    /\ NotificationServiceConstructed
    /\ tz = UTCZone
    /\ healthData = <<>>
    /\ badges = initializeBadges
    /\ achievements = initializeAchievements
    /\ userStats = None
    /\ storage = [k \in HealthStorageKeys |-> None]
    /\ rejections = 0
    /\ timeArgs = NoTimeArgs
    /\ call = [p \in Callers |-> Idle]

NextOverlap ==
    \/ CallSave
    \/ GetItemReturns
    \/ SetItemReturns

SpecOverlap == InitOverlap /\ [][NextOverlap]_vars

(***************************************************************************)
(* NotificationService: updateSettings and scheduleReminders in flight     *)
(***************************************************************************)
\* Two callers (two toggles of ReminderSettingsWidget tapped one after the
\* other, or a toggle and a direct scheduleReminders) each make one call.  A
\* call runs until its next await and goes on when the awaited call of
\* AsyncStorage or expo-notifications returns; what the awaited call does to
\* the store or to the scheduled notifications happens when it returns.
\* call[p] is the position of caller p: idle, the call it is awaiting
\* (setItem, getPermissions, requestPermissions, getItem, cancel, morning,
\* evening, weekly), resolved or rejected.
NotificationStorageKeys == {"notificationSettings"}

\* { ...this.reminderSettings, ...settings }: a shallow merge
MergedSettings(current, settings) ==
    [f \in DOMAIN current |-> IF f \in DOMAIN settings THEN settings[f] ELSE current[f]]

\* What the toggles of ReminderSettingsWidget pass to updateSettings
SettingsUpdates ==
    UNION {{[enabled |-> b],
            [morningReminder |-> [enabled |-> b]],
            [eveningReminder |-> [enabled |-> b]],
            [weeklyReminder |-> [enabled |-> b]]} : b \in BOOLEAN}

\* The reminders in the order scheduleReminders goes through them, and the
\* field of the settings each is enabled by
ReminderOrder == <<"morning", "evening", "weekly">>

SettingOf(type) ==
    CASE type = "morning" -> "morningReminder"
      [] type = "evening" -> "eveningReminder"
      [] type = "weekly" -> "weeklyReminder"

\* The if statements of scheduleReminders from the i-th reminder on, read
\* from the settings as they are now: the first enabled reminder is the next
\* call awaited, and the call resolves when there is none
RECURSIVE NextReminder(_, _)
NextReminder(settings, i) ==
    IF i > Len(ReminderOrder) THEN "resolved"
    ELSE IF settings[SettingOf(ReminderOrder[i])].enabled THEN ReminderOrder[i]
    ELSE NextReminder(settings, i + 1)

\* After cancelAllReminders: if (!this.reminderSettings.enabled) return
AfterCancel(settings) ==
    IF ~settings.enabled THEN "resolved" ELSE NextReminder(settings, 1)

\* The start of scheduleReminders: initialize() when not initialized, which
\* awaits getPermissionsAsync first; else cancelAllReminders
EnterScheduleReminders(initialized) ==
    IF ~initialized THEN "getPermissions" ELSE "cancel"

Position(type) == CHOOSE i \in 1..Len(ReminderOrder) : ReminderOrder[i] = type

At(p, pc) == [call EXCEPT ![p] = [pc |-> pc, op |-> call[p].op]]

\* updateSettings(settings) is called: the settings are merged and
\* saveSettings hands their text to AsyncStorage.setItem
CallUpdateSettings ==
    /\ \E p \in Callers, settings \in SettingsUpdates :
          /\ call[p].pc = "idle"
          /\ reminderSettings' = MergedSettings(reminderSettings, settings)
          /\ call' = [call EXCEPT ![p] = [pc |-> "setItem", op |-> "updateSettings",
                                          text |-> reminderSettings']]
    /\ UNCHANGED <<now, tz, healthData, badges, achievements, userStats, storage,
                   rejections, timeArgs, isInitialized, scheduled>>

\* setItem returns: saveSettings swallows its rejection, and updateSettings
\* goes on with scheduleReminders
SaveSettingsReturns ==
    /\ \E p \in Callers, okSet \in BOOLEAN :
          /\ call[p].pc = "setItem"
          /\ rejections' = rejections + Rejected(okSet)
          /\ rejections' <= MaxRejections
          /\ storage' = IF okSet
                         THEN [storage EXCEPT !["notificationSettings"] = Some(call[p].text)]
                         ELSE storage
          /\ call' = At(p, EnterScheduleReminders(isInitialized))
    /\ UNCHANGED <<now, tz, healthData, badges, achievements, userStats, timeArgs,
                   notificationVars>>

\* scheduleReminders() is called
CallScheduleReminders ==
    /\ \E p \in Callers :
          /\ call[p].pc = "idle"
          /\ call' = [call EXCEPT ![p] = [pc |-> EnterScheduleReminders(isInitialized),
                                          op |-> "scheduleReminders"]]
    /\ UNCHANGED <<now, tz, healthData, badges, achievements, userStats, storage,
                   rejections, timeArgs, notificationVars>>

\* getPermissionsAsync returns: granted, and initialize goes on to
\* loadSettings, or not, and it asks with requestPermissionsAsync
GetPermissionsReturns ==
    /\ \E p \in Callers, granted \in BOOLEAN :
          /\ call[p].pc = "getPermissions"
          /\ call' = At(p, IF granted THEN "getItem" ELSE "requestPermissions")
    /\ UNCHANGED <<now, tz, healthData, badges, achievements, userStats, storage,
                   rejections, timeArgs, notificationVars>>

\* requestPermissionsAsync returns: granted, or initialize returns false
\* and scheduleReminders goes on all the same
RequestPermissionsReturns ==
    /\ \E p \in Callers, granted \in BOOLEAN :
          /\ call[p].pc = "requestPermissions"
          /\ call' = At(p, IF granted THEN "getItem" ELSE "cancel")
    /\ UNCHANGED <<now, tz, healthData, badges, achievements, userStats, storage,
                   rejections, timeArgs, notificationVars>>

\* getItem of loadSettings returns: the saved settings, when there are some
\* and they could be read, are merged into the settings; the service is
\* initialized, and scheduleReminders goes on with cancelAllReminders
LoadSettingsReturns ==
    /\ \E p \in Callers, okGet \in BOOLEAN :
          /\ call[p].pc = "getItem"
          /\ rejections' = rejections + Rejected(okGet)
          /\ rejections' <= MaxRejections
          /\ reminderSettings' =
                IF okGet /\ storage["notificationSettings"] # None
                THEN MergedSettings(reminderSettings, storage["notificationSettings"][1])
                ELSE reminderSettings
          /\ isInitialized' = TRUE
          /\ call' = At(p, "cancel")
    /\ UNCHANGED <<now, tz, healthData, badges, achievements, userStats, storage,
                   timeArgs, scheduled>>

\* cancelAllScheduledNotificationsAsync returns: nothing is scheduled any
\* more, and scheduleReminders reads the settings; or it rejected, and so
\* does the call
CancelReturns ==
    /\ \E p \in Callers, ok \in BOOLEAN :
          /\ call[p].pc = "cancel"
          /\ rejections' = rejections + Rejected(ok)
          /\ rejections' <= MaxRejections
          /\ scheduled' = IF ok THEN NoneScheduled ELSE scheduled
          /\ call' = At(p, IF ok THEN AfterCancel(reminderSettings) ELSE "rejected")
    /\ UNCHANGED <<now, tz, healthData, badges, achievements, userStats, storage,
                   timeArgs, isInitialized, reminderSettings>>

\* scheduleNotificationAsync returns: one more reminder of the type is
\* scheduled, and scheduleReminders reads the settings for the next type; or
\* it rejected, and so does the call
ScheduleReturns ==
    /\ \E p \in Callers, ok \in BOOLEAN :
          /\ call[p].pc \in ReminderTypes
          /\ rejections' = rejections + Rejected(ok)
          /\ rejections' <= MaxRejections
          /\ scheduled' = IF ok THEN [scheduled EXCEPT ![call[p].pc] = @ + 1] ELSE scheduled
          /\ call' = At(p, IF ok THEN NextReminder(reminderSettings, Position(call[p].pc) + 1)
                           ELSE "rejected")
    /\ UNCHANGED <<now, tz, healthData, badges, achievements, userStats, storage,
                   timeArgs, isInitialized, reminderSettings>>

InitReminders ==
    /\ now = StartTime
    /\ NotificationServiceConstructed
    /\ tz = UTCZone
    /\ healthData = <<>>
    /\ badges = initializeBadges
    /\ achievements = initializeAchievements
    /\ userStats = None
    /\ storage = [k \in NotificationStorageKeys |-> None]
    /\ rejections = 0
    /\ timeArgs = NoTimeArgs
    /\ call = [p \in Callers |-> Idle]

NextReminders ==
    \/ CallUpdateSettings
    \/ SaveSettingsReturns
    \/ CallScheduleReminders
    \/ GetPermissionsReturns
    \/ RequestPermissionsReturns
    \/ LoadSettingsReturns
    \/ CancelReturns
    \/ ScheduleReturns

SpecReminders == InitReminders /\ [][NextReminders]_vars

(***************************************************************************)
(* Claims                                                                  *)
(***************************************************************************)
\* Every item unlocked in the table before is unlocked in the table after
StaysUnlocked(before, after) ==
    \A id \in DOMAIN before : before[id].isUnlocked => after[id].isUnlocked

\* ... and keeps its unlockedAt
KeepsStamp(before, after) ==
    \A id \in DOMAIN before :
        before[id].isUnlocked => after[id].unlockedAt = before[id].unlockedAt

\* The instant of the updateStats call that has just completed
LastCallTime == now - TimeBetweenCalls

\* C1: badge monotonicity.  An updateStats call (the only step that moves the
\* clock) never sets isUnlocked of a badge or an achievement back to false
\* and never changes the unlockedAt of an unlocked one, whatever entry list it
\* is given.
C1_UpdateKeepsUnlocked ==
    [][ now' # now =>
            /\ StaysUnlocked(badges, badges') /\ KeepsStamp(badges, badges')
            /\ StaysUnlocked(achievements, achievements')
            /\ KeepsStamp(achievements, achievements') ]_vars

\* C1 witness: updateStats has just run again on a list that still holds the
\* three-day run, with a badge and an achievement that an earlier call unlocked.
C1_Witness ==
    /\ call.op = "updateStats"
    /\ Len(healthData) >= 3
    /\ \E id \in BadgeIdSet :
          badges[id].isUnlocked /\ badges[id].unlockedAt.t < LastCallTime
    /\ \E id \in AchievementIdSet :
          achievements[id].isUnlocked /\ achievements[id].unlockedAt.t < LastCallTime

\* C2: unlocking is one-way over the whole service.  No step (updateStats,
\* loadBadges, loadAchievements, with storage writes that may reject) locks a
\* badge or an achievement that is unlocked in the in-memory table.
C2_NeverRelocked ==
    [][ /\ StaysUnlocked(badges, badges')
        /\ StaysUnlocked(achievements, achievements') ]_vars

\* C3: for every entry list of fewer than 7 entries, generateInsights returns
\* exactly one insight, the "need more data" insight.
C3_ShortListNeedsMoreData ==
    (call.op \in {"generateInsights", "insightsService.generateInsights"}
        /\ Len(healthData) < 7) =>
            /\ Len(call.ret) = 1
            /\ call.ret[1].title = <<"Need More Data">>

\* C4: for every entry list of fewer than 3 entries, analyzeSleepCorrelations
\* returns an empty list and analyzeTrends returns null.
C4_ShortListNoCorrelations ==
    Len(healthData) < 3 =>
        /\ call.op = "analyzeSleepCorrelations" => call.ret = <<>>
        /\ call.op = "analyzeTrends" => call.ret = None

\* C4 witness: analyzeSleepCorrelations has returned an empty list for two
\* entries that differ
C4_Witness ==
    /\ call.op = "analyzeSleepCorrelations"
    /\ Len(healthData) = 2
    /\ healthData[1].duration_hours # healthData[2].duration_hours
    /\ healthData[1].gi_flare # healthData[2].gi_flare
    /\ call.ret = <<>>

\* C5: calculateCorrelation(x, y) equals calculateCorrelation(y, x) for any
\* two arrays of equal length.
C5_CorrelationSymmetric ==
    (call.op = "calculateCorrelation" /\ Len(call.ret.x) = Len(call.ret.y)) =>
        calculateCorrelation(call.ret.y, call.ret.x) = call.ret.r

\* C5 witness: a correlation other than 0 between two different arrays
C5_Witness ==
    /\ call.op = "calculateCorrelation"
    /\ Len(call.ret.x) = Len(call.ret.y)
    /\ call.ret.x # call.ret.y
    /\ call.ret.r.kind = "num"
    /\ ~IsZero(call.ret.r)

\* All values of an array are the same
IsConstant(x) == \A i, j \in 1..Len(x) : x[i] = x[j]

\* C6: when the denominator is zero (a metric has the same value every day, or
\* the arrays have different or zero length) calculateCorrelation returns 0,
\* and it never returns NaN.
C6_ZeroDenominatorGivesZero ==
    call.op = "calculateCorrelation" =>
        /\ ~IsNaN(call.ret.r)
        /\ (Len(call.ret.x) # Len(call.ret.y) \/ IsConstant(call.ret.x) \/ IsConstant(call.ret.y))
              => call.ret.r = Zero

\* The sleep duration the last call was asked for, in minutes: end - start, or
\* end + 1440 - start when the end is before the start
AskedMinutes ==
    IF MinutesOf(timeArgs[2]) >= MinutesOf(timeArgs[1])
    THEN MinutesOf(timeArgs[2]) - MinutesOf(timeArgs[1])
    ELSE MinutesOf(timeArgs[2]) + 1440 - MinutesOf(timeArgs[1])

SleepDurationReturned ==
    call.op \in {"healthService.calculateSleepDuration",
                 "sleepTrackingScreen.calculateSleepDuration"}

\* C7 as stated: for well-formed HH:MM times, the sleep duration either
\* function derives is >= 0 and < 24 hours and equals the minutes from start
\* to end (with 1440 added to an end before the start) divided by 60; for
\* 23:00 to 07:00 it is 8.
C7_DurationIsMinutesOverSixty ==
    SleepDurationReturned =>
        /\ DAtLeast(call.ret, Zero)
        /\ DLess(call.ret, FromInt(24))
        /\ call.ret = Decimal(AskedMinutes, 60)
        /\ (timeArgs = <<TimeString(23, 0), TimeString(7, 0)>> => call.ret = FromInt(8))

\* AskedMinutes / 60 in hundredths of an hour, rounded to the nearest
\* hundredth (no number of minutes lies halfway between two hundredths)
AskedHundredths == (AskedMinutes * 100 + 30) \div 60

\* C7 amended: the duration is >= 0 and < 24 hours; HealthService's function
\* returns the minutes from start to end divided by 60, SleepTrackingScreen's
\* returns that quotient rounded to two decimals; for 23:00 to 07:00 both
\* return 8.
C7_DurationRoundedOnScreen ==
    SleepDurationReturned =>
        /\ DAtLeast(call.ret, Zero)
        /\ DLess(call.ret, FromInt(24))
        /\ (call.op = "healthService.calculateSleepDuration" =>
                call.ret = Decimal(AskedMinutes, 60))
        /\ (call.op = "sleepTrackingScreen.calculateSleepDuration" =>
                call.ret = Decimal(AskedHundredths, 100))
        /\ (timeArgs = <<TimeString(23, 0), TimeString(7, 0)>> => call.ret = FromInt(8))

\* C7 witness: the screen's function has returned the duration of a night that
\* ends before it starts, and the rounding has changed it
C7_Witness ==
    /\ call.op = "sleepTrackingScreen.calculateSleepDuration"
    /\ MinutesOf(timeArgs[2]) < MinutesOf(timeArgs[1])
    /\ call.ret # Decimal(AskedMinutes, 60)
    /\ DGreater(call.ret, FromInt(8))

\* The stats the last updateStats call returned
LastStats == userStats[1]

\* The number of consecutive calendar days, counted back from day d, that
\* each hold an entry
RECURSIVE ConsecutiveDays(_, _, _)
ConsecutiveDays(data, d, n) ==
    IF n < 365 /\ HasLog(data, d) THEN 1 + ConsecutiveDays(data, d - 1, n + 1) ELSE 0

\* C8: currentStreak is the number of consecutive calendar days, counted
\* backward from today, that each have an entry; with entries on today and the
\* two days before and none on the third day before, it is 3.
C8_CurrentStreak ==
    call.op = "updateStats" =>
        LastStats.streaks.currentStreak = ConsecutiveDays(healthData, ISODate(now), 0)

\* C9: experience is 10 per entry, level is floor(experience / 100) + 1,
\* nextLevelExp is 100 per level, so experience < nextLevelExp; 9 entries give
\* level 1 and 10 entries level 2.
C9_LevelFormula ==
    call.op = "updateStats" =>
        LET n == Len(healthData)
        IN  /\ LastStats.experience = 10 * n
            /\ LastStats.level = (10 * n) \div 100 + 1
            /\ LastStats.nextLevelExp = 100 * LastStats.level
            /\ LastStats.experience < LastStats.nextLevelExp
            /\ (n = 9 => LastStats.level = 1)
            /\ (n = 10 => LastStats.level = 2)

\* C9 witness: updateStats has run on 10 entries
C9_Witness ==
    /\ call.op = "updateStats"
    /\ Len(healthData) = 10
    /\ LastStats.level = 2

\* The 14 daily entries of the example: mood from 3 to 9, sleep 7, stress 5
RisingProfile == LinearRun(3, 9, 7, 5)

\* C10: for the 14 daily entries with mood rising linearly from 3 to 9, sleep
\* quality 7 and stress 5, in whatever order they are passed, updateStats
\* reports improvementTrend "up".
C10_RisingTrendIsUp ==
    (call.op = "updateStats" /\ SortByDate(healthData, TRUE) = RisingProfile) =>
        LastStats.improvementTrend = "up"

\* C10 witness: updateStats has run on the example and reported "up"
C10_Witness ==
    /\ call.op = "updateStats"
    /\ SortByDate(healthData, TRUE) = RisingProfile
    /\ LastStats.improvementTrend = "up"
    /\ LastStats.totalLogs = 14

\* The trend insights about the mood among the insights returned
MoodTrendInsights ==
    {i \in 1..Len(call.ret) :
        call.ret[i].type = "trend" /\ call.ret[i].data.metric = "mood"}

\* C11: for the 14 daily entries in chronological order with mood rising
\* linearly from 3 to 9, sleep quality 7 and stress 5, generateInsights returns
\* a mood-trend insight whose trend is "increasing" and whose changeRate is
\* above 10.
C11_RisingMoodInsight ==
    (call.op = "generateInsights" /\ healthData = RisingProfile) =>
        \E i \in MoodTrendInsights :
            /\ call.ret[i].data.trend = "increasing"
            /\ DGreater(call.ret[i].data.changeRate, FromInt(10))

\* The mean of the values analyzeTrends was called on: those of the metric it
\* reports, over the window it reports
WindowMean ==
    Average(Column(LastEntries(healthData, call.ret[1].period), call.ret[1].metric))

\* C14: when the mean of the metric over the trend window is zero,
\* analyzeTrends returns the trend "stable" with a changeRate that is a number,
\* not NaN.
C14_ZeroMeanIsStable ==
    (call.op = "analyzeTrends" /\ call.ret # None /\ IsZero(WindowMean)) =>
        /\ call.ret[1].trend = "stable"
        /\ ~IsNaN(call.ret[1].changeRate)

\* No two of the entries have the same date
OnePerDate(entries) ==
    \A i, j \in 1..Len(entries) : entries[i].date = entries[j].date => i = j

\* The stored entries of a date
StoredFor(date) == SelectSeq(StoredEntries, LAMBDA e : e.date = date)

\* The entry the last save of the call was given
LastSaved == IF call.op = "importDataFromJSON" THEN call.arg[1][Len(call.arg[1])] ELSE call.arg

SaveResolved ==
    /\ call.ret = "resolved"
    /\ \/ call.op \in {"logEntry", "updateHealthEntry"}
       \/ call.op = "importDataFromJSON" /\ call.arg[1] # <<>>

\* C12: whatever logEntry, updateHealthEntry, deleteHealthEntry and
\* importDataFromJSON calls have run, one at a time, and however their storage
\* calls ended, the stored list holds at most one entry per date; after a
\* logEntry, an updateHealthEntry or an importDataFromJSON that resolved, the
\* one stored entry of the date saved last is the entry that was saved,
\* whether or not the date was stored before.
C12_OneEntryPerDate ==
    /\ OnePerDate(StoredEntries)
    /\ SaveResolved => StoredFor(LastSaved.date) = <<LastSaved>>

\* C12 witness: logEntry has resolved for a date that was stored already, with
\* the entry of another date stored beside it
C12_Witness ==
    /\ call.op = "logEntry"
    /\ call.ret = "resolved"
    /\ call.entryIndex >= 0
    /\ Len(StoredEntries) = 2
    /\ StoredFor(call.arg.date) = <<call.arg>>

\* C13: every stored entry has the duration_hours derived from its own
\* start_time and end_time, rounded to two decimals, after any logEntry,
\* updateHealthEntry and importDataFromJSON calls.
C13_DurationDerived ==
    \A i \in 1..Len(StoredEntries) :
        StoredEntries[i].sleep.duration_hours =
            RoundedToHundredths(calculateSleepDuration(StoredEntries[i].sleep.start_time,
                                                       StoredEntries[i].sleep.end_time))

\* C15: updateStats leaves the caller's entry list as it was: after the call
\* the array holds the same entries in the same order as before it.
C15_ListUntouched == [][healthData' = healthData]_vars

\* The items of a table that the stats object of the last updateStats call
\* returned as unlocked
ReturnedUnlocked(field) ==
    IF userStats = None THEN {}
    ELSE {id \in DOMAIN userStats[1][field] : userStats[1][field][id].isUnlocked}

Reported(list) == {list[i] : i \in 1..Len(list)}

StoredTable(key, initial) == IF storage[key] = None THEN initial ELSE storage[key][1]

\* The stored table holds the progress and the unlock state of the table in
\* memory
PersistedAs(stored, table) ==
    \A id \in DOMAIN table :
        /\ stored[id].isUnlocked = table[id].isUnlocked
        /\ "progress" \in DOMAIN table[id] => stored[id].progress = table[id].progress

\* C17: once an updateStats call has completed, the stored badge table and
\* the stored achievement table equal the tables in memory (progress and
\* unlock state), here even when no storage call has ever rejected.
C17_TablesWrittenBack ==
    (call.op = "updateStats" /\ rejections = 0) =>
        /\ PersistedAs(StoredTable("badges", initializeBadges), badges)
        /\ PersistedAs(StoredTable("achievements", initializeAchievements), achievements)

\* C18: after any updateStats calls every badge has a progress between 0 and
\* its maxProgress.
C18_ProgressInRange ==
    \A id \in BadgeIdSet :
        0 <= badges[id].progress /\ badges[id].progress <= badges[id].maxProgress

\* C18 witness: updateStats has returned for a list whose current streak is
\* longer than the 3 days of streak_3, and the badge stands at its maximum
C18_Witness ==
    /\ call.op = "updateStats"
    /\ LastStats.streaks.currentStreak > badges["streak_3"].maxProgress
    /\ badges["streak_3"].progress = badges["streak_3"].maxProgress

SpecialIds == {"early_bird", "night_owl", "perfectionist"}

\* C19: whatever updateStats calls have run, on whatever lists, the badges
\* early_bird, night_owl and perfectionist have progress 0 and are locked.
C19_SpecialBadgesStuck ==
    \A id \in SpecialIds : badges[id].progress = 0 /\ ~badges[id].isUnlocked

\* C19 witness: updateStats has returned for a three-day run that unlocked
\* streak_3 and moved the milestone badges, with the special badges at 0
C19_Witness ==
    /\ call.op = "updateStats"
    /\ badges["streak_3"].isUnlocked
    /\ badges["milestone_50"].progress = MaxEntries
    /\ \A id \in SpecialIds : badges[id].progress = 0 /\ ~badges[id].isUnlocked

\* The sum of a metric over the entries
MetricSum(entries, id) ==
    LET Score(e) == ImprovementScore(id, e) IN SumSeq(MapSeq(entries, Score))

\* The average of the metric over the last 7 entries by date is at least 2
\* points above (for stress_reduction: below) its average over the 7 before
ShiftedByTwo(data, id) ==
    LET sorted == SortByDate(data, TRUE)
        last   == MetricSum(SliceFromEnd(sorted, 7, 0), id)
        prev   == MetricSum(SliceFromEnd(sorted, 14, 7), id)
    IN  IF id = "stress_reduction"
        THEN last + 2 * Unit * 7 <= prev
        ELSE last >= prev + 2 * Unit * 7

\* C20: after updateStats on a list, each of mood_improvement,
\* sleep_improvement and stress_reduction is unlocked exactly when the list
\* has at least 14 entries and the average of its metric over the last 7
\* entries by date is at least 2 points above (stress: below) its average
\* over the 7 entries before them.
C20_ImprovementBadges ==
    call.op = "updateStats" =>
        \A id \in ImprovementIds :
            badges[id].isUnlocked <=>
                (Len(healthData) >= TrendMinEntries /\ ShiftedByTwo(healthData, id))

InsightCalls == {"generateInsights", "insightsService.generateInsights"}

\* C21: in the list generateInsights returns, the confidence of every insight
\* is at least the confidence of the insight after it.
C21_SortedByConfidence ==
    call.op \in InsightCalls =>
        \A i \in 1..(Len(call.ret) - 1) :
            DAtLeast(call.ret[i].confidence, call.ret[i + 1].confidence)

\* C21 witness: generateInsights has returned a pattern insight, which is
\* pushed last, ahead of a correlation or trend insight of lower confidence
C21_Witness ==
    /\ call.op = "generateInsights"
    /\ \E i, j \in 1..Len(call.ret) :
          /\ i < j
          /\ call.ret[i].type = "pattern"
          /\ call.ret[j].type \in {"correlation", "trend"}
          /\ DGreater(call.ret[i].confidence, call.ret[j].confidence)

\* C22: every insight generateInsights returns has a confidence from 0 to 1,
\* whatever the entry list.
C22_ConfidenceInUnitInterval ==
    call.op = "generateInsights" =>
        \A i \in 1..Len(call.ret) :
            /\ DAtLeast(call.ret[i].confidence, Zero)
            /\ DAtMost(call.ret[i].confidence, FromInt(1))

DistinctDates(data) == {data[i].date : i \in 1..Len(data)}

\* The dates d, d + 1, ..., d + n - 1 all have an entry
IsRun(data, d, n) == \A k \in 0..(n - 1) : d + k \in DistinctDates(data)

\* The length of the longest run of consecutive calendar dates with an entry
LongestRun(data) ==
    Cardinality({n \in 1..Cardinality(DistinctDates(data)) :
                    \E d \in DistinctDates(data) : IsRun(data, d, n)})

\* C23: longestStreak is the length of the longest run of consecutive calendar
\* dates among the distinct entry dates, 0 for the empty list, whatever the
\* order of the list and however many entries a date has.
C23_LongestStreak ==
    call.op = "updateStats" =>
        LastStats.streaks.longestStreak = LongestRun(healthData)

\* C23 witness: updateStats has returned for a list with two entries of one
\* date and a day without an entry, whose longest run is 2 days
C23_Witness ==
    /\ call.op = "updateStats"
    /\ Len(healthData) > Cardinality(DistinctDates(healthData))
    /\ LastStats.streaks.longestStreak = 2
    /\ \E d \in DistinctDates(healthData) :
          d + 1 \notin DistinctDates(healthData) /\ d + 2 \in DistinctDates(healthData)

\* The list is in the order saveEntryLocally stores it: newest first
NewestFirst(data) == \A i, j \in 1..Len(data) : i < j => data[i].date > data[j].date

\* From each day to the next the mood rises by more than 5% of its mean
MoodRisesWithDate(data) ==
    /\ Len(data) >= CorrelationMinEntries
    /\ \A i \in 1..Len(data) : \E j \in 1..Len(data) :
          \/ data[i].date = data[1].date
          \/ /\ data[j].date = data[i].date + 1
             /\ 100 * (data[j].mood_score - data[i].mood_score) * Len(data)
                    > 5 * SumSeq(MapSeq(data, MoodOf))

\* C24: for a list stored newest first whose mood rises with the calendar
\* date by more than 5% of its mean a day, analyzeTrends over a window that
\* holds the whole list classifies the mood as "increasing".
C24_RisingWithDateIsIncreasing ==
    (/\ call.op = "analyzeTrends" /\ call.ret # None
     /\ NewestFirst(healthData) /\ MoodRisesWithDate(healthData)) =>
        \/ call.ret[1].metric # "mood"
        \/ call.ret[1].period < Len(healthData)
        \/ call.ret[1].trend = "increasing"

\* C25: logEntry saves the entry locally before it syncs.  When the sync
\* fails, logEntry resolves with the entry and the entry is in local storage;
\* when the local save fails, logEntry rejects and no sync is attempted.
C25_SavedBeforeSync ==
    call.op = "logEntry" =>
        /\ call.sync = "failed" =>
               call.ret = "resolved" /\ StoredFor(call.arg.date) = <<call.arg>>
        /\ ~call.saved => call.ret = "rejected" /\ call.sync = "none"

\* C25 witness: a logEntry whose server sync failed has resolved, with an
\* entry of another date stored before it
C25_Witness ==
    /\ call.op = "logEntry"
    /\ call.sync = "failed"
    /\ call.ret = "resolved"
    /\ Len(StoredEntries) = 2

\* C26: an updateStats call on a list of fewer than 7 entries, the empty list
\* among them, does not unlock the achievement stress_master.
C26_StressMasterNeedsAWeek ==
    (call.op = "updateStats" /\ Len(healthData) < 7) =>
        "stress_master" \notin Reported(call.ret.newAchievements)

\* C27: the streaks updateStats computes satisfy
\* 0 <= currentStreak <= longestStreak <= number of distinct entry dates.
C27_StreakOrder ==
    call.op = "updateStats" =>
        /\ 0 <= LastStats.streaks.currentStreak
        /\ LastStats.streaks.currentStreak <= LastStats.streaks.longestStreak
        /\ LastStats.streaks.longestStreak <= Cardinality(DistinctDates(healthData))

\* C28: after any updateStats calls, a badge that is unlocked has its progress
\* at maxProgress.
C28_UnlockedIsComplete ==
    \A id \in BadgeIdSet :
        badges[id].isUnlocked => badges[id].progress = badges[id].maxProgress

\* C28 witness: updateStats has unlocked a streak badge on a streak longer
\* than its maxProgress, and an improvement badge
C28_Witness ==
    /\ call.op = "updateStats"
    /\ \E id \in {"streak_3", "streak_7"} :
          /\ badges[id].isUnlocked
          /\ LastStats.streaks.currentStreak > badges[id].maxProgress
    /\ \E id \in ImprovementIds : badges[id].isUnlocked

\* C29: when two logEntry or updateHealthEntry calls for different dates have
\* both resolved, with no storage call rejected, local storage holds the
\* entry of each, however their getItem and setItem steps interleaved.
C29_NoLostUpdate ==
    (/\ \A p \in Callers : call[p].pc = "resolved"
     /\ call[1].entry.date # call[2].entry.date
     /\ rejections = 0) =>
        \A p \in Callers : StoredFor(call[p].entry.date) = <<call[p].entry>>

\* No call of the notification service is in flight
NoCallInFlight == \A p \in Callers : call[p].pc \in {"idle", "resolved"}

\* C30: once every updateSettings and scheduleReminders call has completed
\* (none having met a rejected call), at most one morning, one evening and
\* one weekly reminder are scheduled, each only if it is enabled in the
\* settings as they are then, and none when settings.enabled is false
C30_RemindersMatchSettings ==
    (NoCallInFlight /\ rejections = 0) =>
        \A type \in ReminderTypes :
            /\ scheduled[type] <= 1
            /\ scheduled[type] = 1 =>
                  reminderSettings.enabled /\ reminderSettings[SettingOf(type)].enabled

====
